---- MODULE Spec2Model ----
(***************************************************************************)
(* Meican AI planner: the Planner component (slot selection, AI config     *)
(* gate, menu/history/generation run, review, batch execution with         *)
(* per-namespace address resolution), GeminiService.generateWeeklyPlan     *)
(* reconciliation, the App's slot buttons with OrderEditModal, and the     *)
(* meicanService calls they make.                                          *)
(*                                                                         *)
(* Conventions.  A date "YYYY-MM-DD" is a day number; day 0 is a Sunday,   *)
(* so day % 7 is the true weekday numbered as Date.getDay() numbers it.    *)
(* An absent optional field is Undefined; "" is the empty string.  Both    *)
(* are falsy, as in JavaScript.  Display-only state of the component       *)
(* (logs, timeline, progress, loading flag) is not modelled.               *)
(*                                                                         *)
(* Specifications.  SpecSlots: slot selection at mount over arbitrary      *)
(* calendars and time zones.  SpecRecon: one call of generateWeeklyPlan    *)
(* over arbitrary slot lists and replies.  Spec: the Planner from a        *)
(* complete AI configuration, through planning, review and execution.      *)
(* SpecConfig: the Planner from an incomplete AI configuration, through    *)
(* the configuration form and planning up to the review.                   *)
(* SpecSession: the Planner opened after a calendar read that may have     *)
(* failed.  SpecEdit: the single-slot edit path, App.canEditSlot and       *)
(* OrderEditModal, over a clock.  SpecFair: Spec under the assumption     *)
(* that every network call in flight eventually returns.  SpecHistory,     *)
(* SpecSettings, SpecAuth: the backend's history route, settings route     *)
(* and session store, each over arbitrary requests.                        *)
(***************************************************************************)
EXTENDS Integers, Sequences, FiniteSets, TLC

Undefined == "undefined"

Falsy(x) == x = Undefined \/ x = ""

\* a || b of JavaScript, on strings
OrElse(a, b) == IF Falsy(a) THEN b ELSE a

Range(s) == {s[i] : i \in DOMAIN s}

\* Array.prototype.find over the results of its test on each element: the
\* index of the first element that passes, or 0 when find returns undefined
RECURSIVE FindFrom(_, _)
FindFrom(passes, i) ==
    IF i > Len(passes) THEN 0
    ELSE IF passes[i] THEN i
    ELSE FindFrom(passes, i + 1)

Find(passes) == FindFrom(passes, 1)

(***************************************************************************)
(* Slot selection (Planner, slotsToFill)                                   *)
(***************************************************************************)

MealTimes == {"BREAKFAST", "LUNCH", "DINNER"}

\* enum OrderStatus: ORDERED has the value 'ORDER'
OrderStatuses == {"AVAILABLE", "ORDER", "CLOSED", "NO_SERVICE"}

\* Offsets of the browser's time zone from UTC, in hours
TzOffsets == {-5, 0, 8}

\* new Date("YYYY-MM-DD") is midnight UTC of that date; getDay() reads the
\* weekday of that instant in local time: the day before, west of Greenwich.
GetDayOfDateString(date, tzOffset) == (date + (tzOffset \div 24)) % 7

IsWeekend(date, tzOffset) ==
    LET dayOfWeek == GetDayOfDateString(date, tzOffset)
    IN  dayOfWeek = 0 \/ dayOfWeek = 6

SlotFilter(s, p, tzOffset) ==
    IF IsWeekend(s.date, tzOffset) /\ ~p.enableWeekends THEN FALSE
    ELSE IF s.mealTime = "BREAKFAST" THEN FALSE
    ELSE s.status = "AVAILABLE" \/ s.status = "NO_SERVICE"

SlotsToFill(ws, p, tzOffset) ==
    LET Keep(s) == SlotFilter(s, p, tzOffset) IN SelectSeq(ws, Keep)

(***************************************************************************)
(* GeminiService.generateWeeklyPlan: mapping the generator's items back    *)
(***************************************************************************)

\* A dish id as it travels through JSON: a number or a string
NumId(n) == [k |-> "num", n |-> n, s |-> ""]
StrId(s) == [k |-> "str", n |-> 0, s |-> s]

Digit == <<"0", "1", "2", "3", "4", "5", "6", "7", "8", "9">>

\* String(n) for a non-negative integer: its decimal digits
RECURSIVE NumToString(_)
NumToString(n) ==
    IF n < 10 THEN Digit[n + 1]
    ELSE NumToString(n \div 10) \o Digit[(n % 10) + 1]

\* String(x) of JavaScript on a dish id
JsString(id) == IF id.k = "num" THEN NumToString(id.n) ELSE id.s

DishIdMatches(d, p) == JsString(d.id) = JsString(p.dishId)

SlotMatches(s, p) == s.date = p.date /\ s.mealTime = p.mealTime

PlannedOrder(p, slot, dish) ==
    [date |-> p.date, mealTime |-> p.mealTime, dish |-> dish,
     reason |-> p.reason, tabUniqueId |-> slot.tabUniqueId,
     userAddressUniqueId |-> slot.userAddressUniqueId,
     namespace |-> slot.namespace]

\* parsed.forEach(...): reading p.date of a null item raises a TypeError,
\* which leaves forEach and is rethrown by the catch block
RECURSIVE MapBackFrom(_, _, _, _)
MapBackFrom(availableSlots, parsed, i, plans) ==
    IF i > Len(parsed) THEN [threw |-> FALSE, plans |-> plans]
    ELSE LET p == parsed[i] IN
         IF p.isNull THEN [threw |-> TRUE, plans |-> <<>>]
         ELSE LET slot == Find([k \in DOMAIN availableSlots |->
                                    SlotMatches(availableSlots[k], p)])
              IN  IF slot = 0
                  THEN MapBackFrom(availableSlots, parsed, i + 1, plans)
                  ELSE LET menu == availableSlots[slot].menu
                           dish == Find([k \in DOMAIN menu |->
                                            DishIdMatches(menu[k], p)])
                       IN  IF dish = 0
                           THEN MapBackFrom(availableSlots, parsed, i + 1, plans)
                           ELSE MapBackFrom(availableSlots, parsed, i + 1,
                                    Append(plans, PlannedOrder(p,
                                        availableSlots[slot], menu[dish])))

\* The generator's reply: kind "throw" (request failed, empty text, text that is
\* no JSON, or JSON that is no array), or kind "array" with the parsed items.
GenerateWeeklyPlan(availableSlots, response) ==
    IF response.kind = "throw" THEN [threw |-> TRUE, plans |-> <<>>]
    ELSE MapBackFrom(availableSlots, response.items, 1, <<>>)

(***************************************************************************)
(* State                                                                   *)
(***************************************************************************)

VARIABLES
    tz,            \* the browser's offset from UTC, in hours
    weekStatus,    \* App: the calendar query's data (DailyStatus[])
    calendarIsError, \* the calendar query: its last fetch failed
    prefs,         \* App: the user preferences
    showPlanner,   \* App: whether the Planner is mounted
    prefsWrites,   \* App.onUpdatePrefs calls whose savePreferences is pending
    now,           \* the clock: minutes of local time
    editingSlot,   \* App: the slot whose OrderEditModal is mounted, <<>> if none
    loadingSlotId, \* App: key of the slot whose calendar reload is awaited
    modal,         \* OrderEditModal: last rendered view, selection, error, handler
    edits,         \* delete and place requests since a modal was last opened
    historyGet,    \* backend: the activation of GET /api/history/orders
    settingsFile,  \* backend: the parsed content of user_settings.json
    saves,         \* backend: the activations of POST /api/settings
    sessions,      \* backend: the session Map, session id -> cookies
    sessionsFile,  \* backend: the parsed content of .sessions.json
    authLog,       \* backend: the auth and proxied requests answered so far
    slotsToFill,   \* Planner: the memoised eligible slots
    step,          \* Planner: Step
    plan,          \* Planner: PlannedOrder[]
    errorMsg,      \* Planner: the error shown in step error
    orderResults,  \* Planner: OrderResult[]
    configForm,    \* Planner: the AI config form
    planRun,       \* the activation of startPlanning, suspended at an await
    execRun,       \* the activation of executeOrder, suspended at an await
    sent,          \* requests issued by the current run, in order
    placed,        \* per proposal of the current batch: how its order request ended
    gwpSlots,      \* generateWeeklyPlan: availableSlots of the observed call
    gwpResponse,   \* generateWeeklyPlan: the generator's reply in that call
    gwpResult      \* generateWeeklyPlan: what the call returned or that it threw

editVars == <<now, editingSlot, loadingSlotId, modal, edits>>
authVars == <<sessions, sessionsFile, authLog>>
backendVars == <<historyGet, settingsFile, saves, authVars>>
appVars == <<tz, editVars, backendVars, weekStatus, calendarIsError, prefs, showPlanner,
             prefsWrites>>
plannerVars == <<slotsToFill, step, plan, errorMsg, orderResults, configForm>>
runVars == <<planRun, execRun, sent, placed>>
gwpVars == <<gwpSlots, gwpResponse, gwpResult>>
vars == <<appVars, plannerVars, runVars, gwpVars>>

(***************************************************************************)
(* Data                                                                    *)
(***************************************************************************)

Slot(date, mealTime, status, tab, addr, ns) ==
    [date |-> date, mealTime |-> mealTime, status |-> status,
     tabUniqueId |-> tab, userAddressUniqueId |-> addr, namespace |-> ns]

Dish(id, name) == [id |-> id, name |-> name]

Prefs(provider, gemini, url, key, weekends, addr) ==
    [aiProvider |-> provider, geminiApiKey |-> gemini,
     customAiBaseUrl |-> url, customAiApiKey |-> key,
     enableWeekends |-> weekends, defaultAddressId |-> addr]

\* DEFAULT_PREFS of App
DefaultPrefs == Prefs("gemini", "", "", "", FALSE, Undefined)

NoForm == [preheated |-> FALSE, fields |-> DefaultPrefs]

NoPlanRun ==
    [pc |-> "none", slots |-> <<>>, i |-> 0, enrichedSlots |-> <<>>,
     history |-> <<>>, historyFailed |-> FALSE]

NoCache == <<>>

NoExecRun ==
    [pc |-> "none", plan |-> <<>>, existing |-> <<>>,
     defaultAddressId |-> Undefined, key |-> "", i |-> 0,
     addressCache |-> NoCache, defaultAddressName |-> Undefined,
     addressIdToUse |-> Undefined, results |-> <<>>, failed |-> {}]

NoResponse == [kind |-> "none", items |-> <<>>]
NoResult == [threw |-> FALSE, plans |-> <<>>]

(***************************************************************************)
(* Planner: mounting, cancelling, calendar refetch                         *)
(***************************************************************************)

\* useState initialiser of step
InitialStep(slots) == IF Len(slots) = 0 THEN "fully_planned" ELSE "idle"

\* The effect that switches between idle and fully_planned after a render
AutoSwitch(st, slots) ==
    IF st = "idle" /\ Len(slots) = 0 THEN "fully_planned"
    ELSE IF st = "fully_planned" /\ Len(slots) > 0 THEN "idle"
    ELSE st

\* Component state of a Planner that is not mounted
PlannerUnmounted ==
    /\ slotsToFill = <<>>
    /\ step = "unmounted"
    /\ plan = <<>>
    /\ errorMsg = Undefined
    /\ orderResults = <<>>
    /\ configForm = NoForm
    /\ planRun = NoPlanRun
    /\ execRun = NoExecRun
    /\ sent = <<>>
    /\ placed = <<>>

\* OrderEditModal unmounted
NoModal == [view |-> "none", selectedDish |-> FALSE, error |-> Undefined,
            pc |-> "none", slot |-> <<>>]

\* App before any slot is opened, at the first instant of the clock
EditIdle ==
    /\ now = 0
    /\ editingSlot = <<>>
    /\ loadingSlotId = <<>>
    /\ modal = NoModal
    /\ edits = <<>>

\* GET /api/history/orders not being handled
NoHistoryGet == [pc |-> "idle", startDate |-> 0, endDate |-> 0,
                 currentStart |-> 0, chunks |-> <<>>, status |-> 0]

MaxSaves == 2

\* the POST /api/settings requests of one behaviour
Saves == 1 .. MaxSaves

\* {}: the object without keys
Empty == [k \in {} |-> Undefined]

\* POST /api/settings not received
NoSave == [pc |-> "idle", username |-> "", settings |-> Empty,
           allSettings |-> Empty, status |-> 0]

\* user_settings.json as earlier saves left it
StoredSettings == [carol |-> [theme |-> "dark"]]

\* the backend with no request in progress
BackendIdle ==
    /\ historyGet = NoHistoryGet
    /\ settingsFile = StoredSettings
    /\ saves = [r \in Saves |-> NoSave]
    /\ sessions = Empty
    /\ sessionsFile = Empty
    /\ authLog = <<>>

GwpIdle ==
    /\ gwpSlots = <<>>
    /\ gwpResponse = NoResponse
    /\ gwpResult = NoResult

\* App: setShowPlanner(true); the Planner mounts with its initial state
OpenPlanner ==
    /\ ~showPlanner
    /\ showPlanner' = TRUE
    /\ slotsToFill' = SlotsToFill(weekStatus, prefs, tz)
    /\ step' = InitialStep(slotsToFill')
    /\ plan' = <<>>
    /\ errorMsg' = Undefined
    /\ orderResults' = <<>>
    /\ configForm' = NoForm
    /\ UNCHANGED <<tz, editVars, backendVars, calendarIsError, weekStatus, prefs, prefsWrites, runVars, gwpVars>>

\* Planner unmounts: its state and the activations that write to it are gone
Unmount ==
    /\ showPlanner' = FALSE
    /\ slotsToFill' = <<>>
    /\ step' = "unmounted"
    /\ plan' = <<>>
    /\ errorMsg' = Undefined
    /\ orderResults' = <<>>
    /\ configForm' = NoForm
    /\ planRun' = NoPlanRun
    /\ execRun' = NoExecRun
    /\ sent' = <<>>
    /\ placed' = <<>>

\* A cancel button hidden only in the completed view
CancelRenderedUnlessCompleted(st) == st # "completed"

\* The header's cancel button is rendered unless submitting or completed; the
\* others are in the views of fully_planned, ai_config and error
CancelRendered(st) == st # "submitting" /\ st # "completed"

\* The cancel buttons: onCancel
Cancel ==
    /\ showPlanner
    /\ CancelRendered(step)
    /\ Unmount
    /\ UNCHANGED <<tz, editVars, backendVars, calendarIsError, weekStatus, prefs, prefsWrites, gwpVars>>

(***************************************************************************)
(* Slot selection over arbitrary calendars                                 *)
(***************************************************************************)

MaxWeekLen == 2

\* Friday, Saturday, Sunday, Monday
FilterDates == {5, 6, 7, 8}

FilterSlots ==
    {Slot(d, m, st, "tab", Undefined, "nsA") :
        d \in FilterDates, m \in MealTimes, st \in OrderStatuses}

SeqsUpTo(S, n) == UNION {[1..k -> S] : k \in 0..n}

InitSlots ==
    /\ tz \in TzOffsets
    /\ calendarIsError = FALSE
    /\ weekStatus \in SeqsUpTo(FilterSlots, MaxWeekLen)
    /\ prefs \in {Prefs("gemini", "key", "", "", w, Undefined) : w \in BOOLEAN}
    /\ showPlanner = FALSE
    /\ prefsWrites = <<>>
    /\ PlannerUnmounted
    /\ EditIdle
    /\ BackendIdle
    /\ GwpIdle

NextSlots == OpenPlanner \/ Cancel

SpecSlots == InitSlots /\ [][NextSlots]_vars

\* The weekday of the calendar date itself
DateIsWeekend(date) == date % 7 = 0 \/ date % 7 = 6

ClaimEligible(s, p) ==
    /\ s.mealTime # "BREAKFAST"
    /\ (~DateIsWeekend(s.date) \/ p.enableWeekends)
    /\ s.status \in {"AVAILABLE", "NO_SERVICE"}

\* C3: a slot is selected iff its meal period is not BREAKFAST, its date is not
\* a Saturday or Sunday unless enableWeekends, and its status is AVAILABLE or
\* NO_SERVICE.
C3_SelectedIffEligible ==
    showPlanner =>
        \A i \in DOMAIN weekStatus :
            (weekStatus[i] \in Range(slotsToFill))
                <=> ClaimEligible(weekStatus[i], prefs)

(***************************************************************************)
(* generateWeeklyPlan over arbitrary generator replies                     *)
(***************************************************************************)

MaxReconSlots == 2
MaxReconItems == 2

EnrichedSlot(slot, menu) ==
    [date |-> slot.date, mealTime |-> slot.mealTime, status |-> slot.status,
     tabUniqueId |-> slot.tabUniqueId,
     userAddressUniqueId |-> slot.userAddressUniqueId,
     namespace |-> slot.namespace, menu |-> menu]

\* Tuesday lunch, Tuesday dinner, and a second calendar item of the same
\* Tuesday that getCalendarStatus also maps to DINNER
ReconSlotPool ==
    {EnrichedSlot(Slot(9, "LUNCH", "AVAILABLE", "tabL", Undefined, "nsA"),
                  <<Dish(NumId(55), "Rice"), Dish(StrId("7"), "Soup")>>),
     EnrichedSlot(Slot(9, "DINNER", "AVAILABLE", "tabD", "b1", "nsB"),
                  <<Dish(StrId("55"), "Noodles")>>),
     EnrichedSlot(Slot(9, "DINNER", "AVAILABLE", "tabS", Undefined, "nsA"),
                  <<Dish(NumId(8), "Congee")>>)}

Injective(f) == \A i, j \in DOMAIN f : f[i] = f[j] => i = j

ReconSlotLists ==
    {l \in SeqsUpTo(ReconSlotPool, MaxReconSlots) : Len(l) > 0 /\ Injective(l)}

Item(date, mealTime, dishId) ==
    [isNull |-> FALSE, date |-> date, mealTime |-> mealTime,
     dishId |-> dishId, reason |-> "because"]

\* A JSON null among the items
NullItem ==
    [isNull |-> TRUE, date |-> 0, mealTime |-> "", dishId |-> StrId(""),
     reason |-> ""]

\* Tuesday or a Saturday that is in no input slot; ids as text or number
ReconItems ==
    {Item(d, m, id) :
        d \in {9, 13}, m \in {"LUNCH", "DINNER"},
        id \in {StrId("55"), NumId(55), NumId(7), StrId("8"), StrId("99")}}
    \cup {NullItem}

ArrayResponse(items) == [kind |-> "array", items |-> items]
ThrowResponse == [kind |-> "throw", items |-> <<>>]

ReconResponses ==
    {ArrayResponse(items) : items \in SeqsUpTo(ReconItems, MaxReconItems)}
    \cup {ThrowResponse}

InitRecon ==
    /\ tz = 8
    /\ calendarIsError = FALSE
    /\ weekStatus = <<>>
    /\ prefs = Prefs("gemini", "key", "", "", FALSE, Undefined)
    /\ showPlanner = FALSE
    /\ prefsWrites = <<>>
    /\ PlannerUnmounted
    /\ EditIdle
    /\ BackendIdle
    /\ gwpSlots \in ReconSlotLists
    /\ gwpResponse = NoResponse
    /\ gwpResult = NoResult

\* One call of generateWeeklyPlan, from the reply to the returned plans
GenerateWeeklyPlanCall ==
    /\ gwpResponse.kind = "none"
    /\ \E response \in ReconResponses :
        /\ gwpResponse' = response
        /\ gwpResult' = GenerateWeeklyPlan(gwpSlots, response)
    /\ UNCHANGED <<appVars, plannerVars, runVars, gwpSlots>>

NextRecon == GenerateWeeklyPlanCall

SpecRecon == InitRecon /\ [][NextRecon]_vars

SlotsMatching(q) ==
    {i \in DOMAIN gwpSlots :
        gwpSlots[i].date = q.date /\ gwpSlots[i].mealTime = q.mealTime}

\* C4: every returned proposal matches exactly one input slot by (date, meal
\* period), its dish is in that slot's menu with an id equal to a returned
\* dishId as strings, and its tab, namespace and address are that slot's.
C4_ProposalMatchesOneSlot ==
    \A k \in DOMAIN gwpResult.plans :
        LET q == gwpResult.plans[k] IN
        /\ Cardinality(SlotsMatching(q)) = 1
        /\ \A i \in SlotsMatching(q) :
            /\ q.dish \in Range(gwpSlots[i].menu)
            /\ \E j \in DOMAIN gwpResponse.items :
                /\ SlotMatches(gwpSlots[i], gwpResponse.items[j])
                /\ JsString(gwpResponse.items[j].dishId) = JsString(q.dish.id)
            /\ q.tabUniqueId = gwpSlots[i].tabUniqueId
            /\ q.namespace = gwpSlots[i].namespace
            /\ q.userAddressUniqueId = gwpSlots[i].userAddressUniqueId

\* An item the claim says is kept: some input slot has its (date, meal period)
\* and a dish whose id equals its dishId as strings
ClaimKeeps(p) ==
    /\ ~p.isNull
    /\ \E i \in DOMAIN gwpSlots :
        /\ SlotMatches(gwpSlots[i], p)
        /\ \E d \in Range(gwpSlots[i].menu) : JsString(d.id) = JsString(p.dishId)

\* C5: for any list of items the call returns normally, and the plans are the
\* kept items in generator order, each with its own date, meal and dish id.
C5_KeepsMatchingDropsOthers ==
    gwpResponse.kind = "array" =>
        LET kept == SelectSeq(gwpResponse.items, ClaimKeeps) IN
        /\ ~gwpResult.threw
        /\ Len(gwpResult.plans) = Len(kept)
        /\ \A k \in DOMAIN kept :
            /\ gwpResult.plans[k].date = kept[k].date
            /\ gwpResult.plans[k].mealTime = kept[k].mealTime
            /\ JsString(gwpResult.plans[k].dish.id) = JsString(kept[k].dishId)

\* App.onUpdatePrefs after savePreferences resolved, or a calendar refetch:
\* the Planner renders with new props and its effect runs
Rerender(ws, p) ==
    IF showPlanner
    THEN /\ slotsToFill' = SlotsToFill(ws, p, tz)
         /\ step' = AutoSwitch(step, slotsToFill')
    ELSE UNCHANGED <<slotsToFill, step>>

(***************************************************************************)
(* The calendars, menus and preferences of the planner runs                *)
(***************************************************************************)

LunchA == Slot(9, "LUNCH", "AVAILABLE", "tabL", Undefined, "nsA")
DinnerB == Slot(9, "DINNER", "AVAILABLE", "tabD", Undefined, "nsB")
OrderedA == Slot(10, "LUNCH", "ORDER", "tabO", "a2", "nsA")
NoTab == Slot(10, "DINNER", "NO_SERVICE", Undefined, Undefined, Undefined)
Carried == Slot(11, "LUNCH", "AVAILABLE", "tabC", "c1", Undefined)
SaturdayNoNamespace ==
    Slot(13, "DINNER", "AVAILABLE", "tabN", Undefined, Undefined)

Weeks ==
    {<<>>,
     <<OrderedA, LunchA, DinnerB>>,
     <<NoTab, Carried, SaturdayNoNamespace>>}

\* What the dishes endpoint lists for a tab when it lists anything
MenuOf(tab) ==
    CASE tab = "tabL" -> <<Dish(NumId(55), "Rice")>>
      [] tab = "tabD" -> <<Dish(StrId("n1"), "Noodles")>>
      [] tab = "tabC" -> <<Dish(StrId("s1"), "Soup")>>
      [] tab = "tabN" -> <<Dish(StrId("c1"), "Congee")>>
      [] OTHER -> <<Dish(NumId(55), "Rice")>>

\* Stored preferences with a complete AI configuration
InitialPrefs ==
    {Prefs("gemini", "key", "", "", w, a) :
        w \in BOOLEAN, a \in {Undefined, "a2"}}

\* Stored preferences with an incomplete AI configuration
IncompletePrefs ==
    {DefaultPrefs, Prefs("custom", "", "url", "", FALSE, Undefined)}

(***************************************************************************)
(* Planner: AI configuration                                               *)
(***************************************************************************)

\* A check that lets every configuration pass
CheckAIConfigAlways(p) == TRUE

CheckAIConfig(p) ==
    IF p.aiProvider = "custom"
    THEN ~(Falsy(p.customAiBaseUrl) \/ Falsy(p.customAiApiKey))
    ELSE ~Falsy(p.geminiApiKey)

\* The form's provider as the form renders it
FormProvider == OrElse(configForm.fields.aiProvider, prefs.aiProvider)

\* The provider select of the form
SetFormProvider ==
    /\ showPlanner /\ step = "ai_config"
    /\ \E v \in {"gemini", "custom"} :
        /\ v # FormProvider
        /\ configForm' = [configForm EXCEPT !.preheated = TRUE,
                                            !.fields.aiProvider = v]
    /\ UNCHANGED <<appVars, slotsToFill, step, plan, errorMsg, orderResults,
                   runVars, gwpVars>>

\* A text input of the form; the custom inputs render for provider custom,
\* the Gemini key input otherwise
SetFormField ==
    /\ showPlanner /\ step = "ai_config"
    /\ \/ /\ FormProvider = "custom"
          /\ \/ configForm' = [configForm EXCEPT
                                    !.fields.customAiBaseUrl = "url"]
             \/ configForm' = [configForm EXCEPT
                                    !.fields.customAiApiKey = "key"]
       \/ /\ FormProvider # "custom"
          /\ configForm' = [configForm EXCEPT !.fields.geminiApiKey = "key"]
    /\ configForm' # configForm
    /\ UNCHANGED <<appVars, slotsToFill, step, plan, errorMsg, orderResults,
                   runVars, gwpVars>>

SaveDisabled ==
    IF configForm.fields.aiProvider = "custom" \/ prefs.aiProvider = "custom"
    THEN Falsy(configForm.fields.customAiApiKey)
            \/ Falsy(configForm.fields.customAiBaseUrl)
    ELSE Falsy(configForm.fields.geminiApiKey)

MaxPrefsWrites == 1

\* saveAiConfig: { ...prefs, ...configForm } goes to onUpdatePrefs, which sets
\* the App's prefs only after savePreferences; the step is set at once
SaveAiConfig ==
    /\ showPlanner /\ step = "ai_config"
    /\ ~SaveDisabled
    /\ Len(prefsWrites) < MaxPrefsWrites
    /\ prefsWrites' = Append(prefsWrites,
            IF configForm.preheated THEN configForm.fields ELSE prefs)
    /\ step' = AutoSwitch("idle", slotsToFill)
    /\ UNCHANGED <<tz, editVars, backendVars, calendarIsError, weekStatus, prefs, showPlanner, slotsToFill, plan,
                   errorMsg, orderResults, configForm, runVars, gwpVars>>

\* onUpdatePrefs: savePreferences resolved, setPrefs(newPrefs).  A suspended
\* activation reads the preferences only through what it captured when it
\* started, so a delivery during a run is taken at the run's end.
PrefsSaved ==
    /\ Len(prefsWrites) > 0
    /\ planRun.pc = "none" /\ execRun.pc = "none"
    /\ prefs' = Head(prefsWrites)
    /\ prefsWrites' = Tail(prefsWrites)
    /\ Rerender(weekStatus, prefs')
    /\ UNCHANGED <<tz, editVars, backendVars, calendarIsError, weekStatus, showPlanner, plan, errorMsg, orderResults,
                   configForm, runVars, gwpVars>>

\* The calendar query delivers new data; as for the preferences, a delivery
\* during a run is taken at the run's end.
CalendarRefetch ==
    /\ planRun.pc = "none" /\ execRun.pc = "none"
    /\ \E ws \in Weeks :
        /\ ws # weekStatus
        /\ weekStatus' = ws
        /\ Rerender(ws, prefs)
    /\ calendarIsError' = FALSE
    /\ UNCHANGED <<tz, editVars, backendVars, prefs, showPlanner, prefsWrites, plan, errorMsg,
                   orderResults, configForm, runVars, gwpVars>>

(***************************************************************************)
(* Planner.startPlanning                                                   *)
(***************************************************************************)

TargetTime(mealTime) ==
    IF mealTime = "DINNER" THEN "12:00"
    ELSE IF mealTime = "BREAKFAST" THEN "07:00"
    ELSE "09:00"

Request(op, i, tab, dishId, date, time, ns, corp, user) ==
    [op |-> op, i |-> i, tabUniqueId |-> tab, dishId |-> dishId,
     targetTime |-> <<date, time>>, namespace |-> ns,
     corpAddressUniqueId |-> corp, userAddressUniqueId |-> user]

MenuRequest(i, slot) ==
    Request("menu", i, slot.tabUniqueId, StrId(""), slot.date,
            TargetTime(slot.mealTime), "", "", "")
HistoryRequest == Request("history", 0, "", StrId(""), 0, "", "", "", "")
GenerateRequest == Request("generate", 0, "", StrId(""), 0, "", "", "", "")

\* The menu loop from slot i up to its next await: slots without a tab are
\* passed over; after the last slot either the error for no menus is thrown
\* (pc "failed") or the history request goes out
RECURSIVE FetchMenus(_, _, _, _)
FetchMenus(slots, i, enrichedSlots, log) ==
    IF i > Len(slots)
    THEN IF Len(enrichedSlots) = 0
         THEN [pc |-> "failed", i |-> i, enrichedSlots |-> enrichedSlots,
               sent |-> log]
         ELSE [pc |-> "history", i |-> i, enrichedSlots |-> enrichedSlots,
               sent |-> Append(log, HistoryRequest)]
    ELSE IF Falsy(slots[i].tabUniqueId)
         THEN FetchMenus(slots, i + 1, enrichedSlots, log)
         ELSE [pc |-> "menu", i |-> i, enrichedSlots |-> enrichedSlots,
               sent |-> Append(log, MenuRequest(i, slots[i]))]

\* The state after FetchMenus stopped at r
MenusStopped(slots, r) ==
    /\ sent' = r.sent
    /\ IF r.pc = "failed"
       THEN /\ step' = "error"
            /\ errorMsg' = "planner.noMenusFound"
            /\ planRun' = NoPlanRun
       ELSE /\ step' = "fetching"
            /\ errorMsg' = Undefined
            /\ planRun' = [pc |-> r.pc, slots |-> slots, i |-> r.i,
                           enrichedSlots |-> r.enrichedSlots,
                           history |-> <<>>, historyFailed |-> FALSE]

\* startPlanning, from the click (idle: generate, review: regenerate) to its
\* first await or return
StartPlanning ==
    /\ showPlanner
    /\ step \in {"idle", "review"}
    /\ IF ~CheckAIConfig(prefs)
       THEN /\ configForm' = [preheated |-> TRUE, fields |-> prefs]
            /\ step' = "ai_config"
            /\ errorMsg' = Undefined
            /\ sent' = <<>>
            /\ UNCHANGED planRun
       ELSE IF Len(slotsToFill) = 0
       THEN /\ step' = "fully_planned"
            /\ errorMsg' = Undefined
            /\ sent' = <<>>
            /\ UNCHANGED <<configForm, planRun>>
       ELSE /\ MenusStopped(slotsToFill, FetchMenus(slotsToFill, 1, <<>>, <<>>))
            /\ UNCHANGED configForm
    /\ UNCHANGED <<appVars, slotsToFill, plan, orderResults, execRun, placed,
                   gwpVars>>

\* A loop body that keeps a slot whose menu is empty
EnrichUnlessThrown(enrichedSlots, slot, outcome) ==
    IF outcome = "throw" THEN enrichedSlots
    ELSE Append(enrichedSlots,
                EnrichedSlot(slot, IF outcome = "menu"
                                   THEN MenuOf(slot.tabUniqueId) ELSE <<>>))

\* The loop body after getAvailableDishes: the slot is pushed with its menu
\* when the menu has a dish, and passed over when it has none or the call
\* threw
Enrich(enrichedSlots, slot, outcome) ==
    IF outcome = "menu"
    THEN Append(enrichedSlots, EnrichedSlot(slot, MenuOf(slot.tabUniqueId)))
    ELSE enrichedSlots

\* getAvailableDishes returned for slot i: it threw, listed nothing, or listed
\* the tab's dishes
MenuReturned ==
    /\ planRun.pc = "menu"
    /\ \E outcome \in {"throw", "empty", "menu"} :
        LET slot == planRun.slots[planRun.i]
            enriched == Enrich(planRun.enrichedSlots, slot, outcome)
        IN  MenusStopped(planRun.slots,
                FetchMenus(planRun.slots, planRun.i + 1, enriched, sent))
    /\ UNCHANGED <<appVars, slotsToFill, plan, orderResults, configForm,
                   execRun, placed, gwpVars>>

\* fetchOrderHistory: it rethrows what its request threw
FetchOrderHistory(outcome) ==
    [threw |-> outcome = "throw",
     orders |-> IF outcome = "some" THEN <<"order">> ELSE <<>>]

\* A history step that takes the orders of a call that threw
HistoryUncaught(call) == <<"order">>

\* let history = []; try { history = await fetchOrderHistory(...) } catch
HistoryCaught(call) == IF call.threw THEN <<>> ELSE call.orders

\* fetchOrderHistory returned or threw; either way generation starts.  The
\* failure is reported in the log only (historyFailed)
HistoryReturned ==
    /\ planRun.pc = "history"
    /\ \E outcome \in {"throw", "none", "some"} :
        planRun' = [planRun EXCEPT
            !.pc = "generate",
            !.history = HistoryCaught(FetchOrderHistory(outcome)),
            !.historyFailed = FetchOrderHistory(outcome).threw]
    /\ step' = "planning"
    /\ sent' = Append(sent, GenerateRequest)
    /\ UNCHANGED <<appVars, slotsToFill, plan, errorMsg, orderResults,
                   configForm, execRun, placed, gwpVars>>

MaxItems == 2

\* What the generator may reply about the enriched slots: for each slot an
\* item with each dish of its menu, an item for a slot that was not sent, a
\* null item
ReplyItems(enrichedSlots) ==
    UNION {{Item(enrichedSlots[i].date, enrichedSlots[i].mealTime, d.id) :
                d \in Range(enrichedSlots[i].menu)} : i \in DOMAIN enrichedSlots}
    \cup {Item(12, "DINNER", StrId("n1")), NullItem}

Replies(enrichedSlots) ==
    {ArrayResponse(items) :
        items \in SeqsUpTo(ReplyItems(enrichedSlots), MaxItems)}
    \cup {ThrowResponse}

\* A test that takes every generated plan for usable
NoUsablePlanNever(generatedPlan) == FALSE

\* !generatedPlan || generatedPlan.length === 0
NoUsablePlan(generatedPlan) == Len(generatedPlan) = 0

\* A setPlan that keeps the proposals held before
SetPlanAppended(prev, generatedPlan) == prev \o generatedPlan

\* setPlan(generatedPlan)
SetPlan(prev, generatedPlan) == generatedPlan

\* generateWeeklyPlan returned or threw
PlanGenerated ==
    /\ planRun.pc = "generate"
    /\ \E response \in Replies(planRun.enrichedSlots) :
        LET generated == GenerateWeeklyPlan(planRun.enrichedSlots, response)
        IN  IF generated.threw
            THEN /\ step' = "error"
                 /\ errorMsg' = "AI Planning Error"
                 /\ planRun' = NoPlanRun
                 /\ UNCHANGED plan
            ELSE IF NoUsablePlan(generated.plans)
            THEN /\ step' = "error"
                 /\ errorMsg' = "planner.aiGenFailed"
                 /\ planRun' = NoPlanRun
                 /\ UNCHANGED plan
            ELSE /\ plan' = SetPlan(plan, generated.plans)
                 /\ planRun' = [planRun EXCEPT !.pc = "planReady"]
                 /\ UNCHANGED <<step, errorMsg>>
    /\ UNCHANGED <<appVars, slotsToFill, orderResults, configForm, execRun,
                   sent, placed, gwpVars>>

\* The one-second pause after the plan is set
PlanReady ==
    /\ planRun.pc = "planReady"
    /\ step' = "review"
    /\ planRun' = NoPlanRun
    /\ UNCHANGED <<appVars, slotsToFill, plan, errorMsg, orderResults,
                   configForm, execRun, sent, placed, gwpVars>>

\* retry, from the error view
Retry ==
    /\ showPlanner /\ step = "error"
    /\ step' = AutoSwitch("idle", slotsToFill)
    /\ errorMsg' = Undefined
    /\ UNCHANGED <<appVars, slotsToFill, plan, orderResults, configForm,
                   runVars, gwpVars>>

\* The proposals before a position
RemoveFrom(list, index) == SubSeq(list, 1, index - 1)

\* prev.filter((_, i) => i !== index)
RemoveAt(list, index) ==
    [k \in 1..(Len(list) - 1) |->
        IF k < index THEN list[k] ELSE list[k + 1]]

\* removePlanItem, from the review list
RemovePlanItem ==
    /\ showPlanner /\ step = "review"
    /\ \E index \in DOMAIN plan : plan' = RemoveAt(plan, index)
    /\ UNCHANGED <<appVars, slotsToFill, step, errorMsg, orderResults,
                   configForm, runVars, gwpVars>>

(***************************************************************************)
(* meicanService.getAddresses and placeOrder                               *)
(***************************************************************************)

\* The address ids of a namespace: ids differ between namespaces, names do not
Book(key) ==
    CASE key = "nsA" -> [hq |-> "a1", lab |-> "a2", old |-> "a9"]
      [] key = "nsB" -> [hq |-> "b1", lab |-> "b2", old |-> "b9"]
      [] OTHER -> [hq |-> "d1", lab |-> "d2", old |-> "d9"]

\* What the address endpoint may answer for a namespace
AddressResponses(key) ==
    LET b == Book(key)
        hq == [uniqueId |-> b.hq, name |-> "HQ", pickUpLocation |-> "HQ lobby"]
        lab == [uniqueId |-> b.lab, name |-> "", pickUpLocation |-> "Lab"]
        recentLab == [uniqueId |-> b.lab, name |-> "", pickUpLocation |-> "Lab"]
        recentOld == [uniqueId |-> b.old, name |-> "", pickUpLocation |-> "Old site"]
    IN  {[addressList |-> <<hq, lab>>, recentList |-> <<>>],
         [addressList |-> <<hq, lab>>, recentList |-> <<recentLab>>],
         [addressList |-> <<hq>>, recentList |-> <<recentOld>>],
         [addressList |-> <<>>, recentList |-> <<recentLab>>],
         [addressList |-> <<>>, recentList |-> <<>>]}

Address(uniqueId, name) == [uniqueId |-> uniqueId, name |-> name]

\* getAddresses on a 2xx response
GetAddresses(response) ==
    LET recentList == response.recentList
        defaultAddressId ==
            IF Len(recentList) > 0 THEN recentList[1].uniqueId ELSE Undefined
        addressList == response.addressList
    IN  IF Len(addressList) > 0
        THEN [addresses |->
                [k \in DOMAIN addressList |->
                    Address(addressList[k].uniqueId,
                            OrElse(addressList[k].name,
                                   addressList[k].pickUpLocation))],
              defaultAddressId |-> defaultAddressId]
        ELSE [addresses |->
                [k \in DOMAIN recentList |->
                    Address(recentList[k].uniqueId,
                            recentList[k].pickUpLocation)],
              defaultAddressId |-> defaultAddressId]

\* What getAddressesForNamespace caches when getAddresses threw
NoAddresses == [addresses |-> <<>>, defaultAddressId |-> Undefined]

OrderOutcomes == {"SUCCESSFUL", "FAILED", "HTTP_ERROR"}

\* placeOrder: its catch block turns every failure of the request, and an
\* upstream status other than SUCCESSFUL, into the return value
\* { success: false }; it never throws
PlaceOrder(outcome) ==
    [threw |-> FALSE, message |-> Undefined,
     success |-> (outcome = "SUCCESSFUL")]

(***************************************************************************)
(* Planner.executeOrder                                                    *)
(***************************************************************************)

CacheKey(namespace) == OrElse(namespace, "default")

\* An entry counted as cached only when it lists an address
CachedWithAddresses(cache, key) ==
    key \in DOMAIN cache /\ Len(cache[key].addresses) > 0

\* !addressCache[key] is false: an entry, which is an object, is cached
Cached(cache, key) == key \in DOMAIN cache

HasNamespace(item) == ~Falsy(item.namespace)
HasAddress(s) == ~Falsy(s.userAddressUniqueId)

\* plan.find(i => i.namespace)?.namespace
SampleNamespace(items) ==
    LET k == Find([j \in DOMAIN items |-> HasNamespace(items[j])])
    IN  IF k = 0 THEN Undefined ELSE items[k].namespace

\* weekStatus.find(s => s.userAddressUniqueId), as a list of at most one slot
ExistingOrderWithAddress(ws) ==
    LET k == Find([j \in DOMAIN ws |-> HasAddress(ws[j])])
    IN  IF k = 0 THEN <<>> ELSE <<ws[k]>>

\* result.addresses.find(a => a.uniqueId === id)?.name
NameOfId(entry, id) ==
    LET k == Find([j \in DOMAIN entry.addresses |->
                        entry.addresses[j].uniqueId = id])
    IN  IF k = 0 THEN Undefined ELSE entry.addresses[k].name

\* result.addresses.find(a => a.name === name)?.uniqueId
IdOfName(entry, name) ==
    LET k == Find([j \in DOMAIN entry.addresses |->
                        entry.addresses[j].name = name])
    IN  IF k = 0 THEN Undefined ELSE entry.addresses[k].uniqueId

AddressRequest(i, key, namespace) ==
    Request("addresses", i, "", StrId(""), 0, "", namespace, "", "")

OrderRequest(i, item, addressIdToUse) ==
    Request("order", i, item.tabUniqueId, item.dish.id, item.date,
            TargetTime(item.mealTime), "", addressIdToUse,
            OrElse(Undefined, addressIdToUse))

OrderResult(item, error) ==
    [date |-> item.date, dishName |-> item.dish.name,
     success |-> Falsy(error), message |-> error]

\* The address the loop body chooses from a namespace's cache entry
MatchedByName(e, entry) ==
    IF ~Falsy(e.defaultAddressName)
    THEN IdOfName(entry, e.defaultAddressName)
    ELSE Undefined

\* A resolution that falls back on the stored default address id
AddressIdToUseStored(e, entry) ==
    OrElse(MatchedByName(e, entry),
           OrElse(e.defaultAddressId,
                  IF Len(entry.addresses) > 0
                  THEN entry.addresses[1].uniqueId ELSE Undefined))

\* A resolution that prefers the list's suggested default to the name match
AddressIdToUseDefaultFirst(e, entry) ==
    IF Len(entry.addresses) > 0
    THEN OrElse(entry.defaultAddressId,
                OrElse(MatchedByName(e, entry), entry.addresses[1].uniqueId))
    ELSE Undefined

AddressIdToUse(e, entry) ==
    LET matched == MatchedByName(e, entry)
    IN  IF Falsy(matched) /\ Len(entry.addresses) > 0
        THEN OrElse(entry.defaultAddressId, entry.addresses[1].uniqueId)
        ELSE matched

\* The preferred name after the loop body's fallback
LearnedName(e, entry) ==
    IF /\ Falsy(MatchedByName(e, entry))
       /\ Len(entry.addresses) > 0
       /\ Falsy(e.defaultAddressName)
    THEN entry.addresses[1].name
    ELSE e.defaultAddressName

\* A message that does not name the namespace
NoAddressMessageUnnamed(item) == "No valid address found"

NoAddressMessage(item) ==
    "No valid address found for namespace " \o OrElse(item.namespace, "unknown")

\* executeOrder's catch block: the message of what the try block threw
ItemError(call) ==
    IF call.threw THEN OrElse(call.message, "planner.unknownError")
    ELSE Undefined

\* The loop from proposal e.i up to its next await (an address request, pc
\* "itemAddresses", or an order request, pc "placeOrder") or to its end (pc
\* "done"); Resolve is the loop body once the namespace's cache entry exists
RECURSIVE Loop(_), Resolve(_, _)
Loop(e) ==
    IF e.i > Len(e.plan) THEN [e EXCEPT !.pc = "done"]
    ELSE LET item == e.plan[e.i] IN
         IF ~Falsy(item.userAddressUniqueId)
         THEN [e EXCEPT !.pc = "placeOrder",
                        !.addressIdToUse = item.userAddressUniqueId,
                        !.sent = Append(@, OrderRequest(e.i, item,
                                            item.userAddressUniqueId))]
         ELSE IF Cached(e.addressCache, CacheKey(item.namespace))
         THEN Resolve(e, e.addressCache[CacheKey(item.namespace)])
         ELSE [e EXCEPT !.pc = "itemAddresses",
                        !.key = CacheKey(item.namespace),
                        !.sent = Append(@, AddressRequest(e.i,
                                    CacheKey(item.namespace), item.namespace))]

\* A loop body that does not await the order it sends
ResolveUnawaited(e, entry) ==
    LET item == e.plan[e.i]
        addressIdToUse == AddressIdToUse(e, entry)
        named == [e EXCEPT !.defaultAddressName = LearnedName(e, entry)]
    IN  IF Falsy(addressIdToUse)
        THEN Loop([named EXCEPT
                !.results = Append(@, OrderResult(item, NoAddressMessage(item))),
                !.placed = Append(@, "NOT_SENT"),
                !.i = @ + 1])
        ELSE Loop([named EXCEPT
                !.addressIdToUse = addressIdToUse,
                !.sent = Append(@, OrderRequest(e.i, item, addressIdToUse)),
                !.i = @ + 1])

\* A loop body that records nothing for a proposal without an address
ResolveUnrecorded(e, entry) ==
    LET item == e.plan[e.i]
        addressIdToUse == AddressIdToUse(e, entry)
        named == [e EXCEPT !.defaultAddressName = LearnedName(e, entry)]
    IN  IF Falsy(addressIdToUse)
        THEN Loop([named EXCEPT !.placed = Append(@, "NOT_SENT"),
                                !.i = @ + 1])
        ELSE [named EXCEPT
                !.pc = "placeOrder",
                !.addressIdToUse = addressIdToUse,
                !.sent = Append(@, OrderRequest(e.i, item, addressIdToUse))]

Resolve(e, entry) ==
    LET item == e.plan[e.i]
        addressIdToUse == AddressIdToUse(e, entry)
        named == [e EXCEPT !.defaultAddressName = LearnedName(e, entry)]
    IN  IF Falsy(addressIdToUse)
        THEN Loop([named EXCEPT
                !.results = Append(@, OrderResult(item, NoAddressMessage(item))),
                !.placed = Append(@, "NOT_SENT"),
                !.i = @ + 1])
        ELSE [named EXCEPT
                !.pc = "placeOrder",
                !.addressIdToUse = addressIdToUse,
                !.sent = Append(@, OrderRequest(e.i, item, addressIdToUse))]

\* Step 1, second part: the preferred name from an existing order's address
FromExistingOrder(e) ==
    IF Falsy(e.defaultAddressName) /\ Len(e.existing) > 0
    THEN LET key == CacheKey(e.existing[1].namespace) IN
         IF Cached(e.addressCache, key)
         THEN Loop([e EXCEPT !.defaultAddressName =
                        NameOfId(e.addressCache[key],
                                 e.existing[1].userAddressUniqueId)])
         ELSE [e EXCEPT !.pc = "existingAddresses", !.key = key,
                        !.sent = Append(@, AddressRequest(0, key,
                                            e.existing[1].namespace))]
    ELSE Loop(e)

\* The activation as it is kept while suspended
ExecRun(e) ==
    [pc |-> e.pc, plan |-> e.plan, existing |-> e.existing,
     defaultAddressId |-> e.defaultAddressId, key |-> e.key, i |-> e.i,
     addressCache |-> e.addressCache,
     defaultAddressName |-> e.defaultAddressName,
     addressIdToUse |-> e.addressIdToUse, results |-> e.results,
     failed |-> e.failed]

\* The activation with the request log it appends to
Running(r, log, outcomes) ==
    [pc |-> r.pc, plan |-> r.plan, existing |-> r.existing,
     defaultAddressId |-> r.defaultAddressId, key |-> r.key, i |-> r.i,
     addressCache |-> r.addressCache,
     defaultAddressName |-> r.defaultAddressName,
     addressIdToUse |-> r.addressIdToUse, results |-> r.results,
     failed |-> r.failed, sent |-> log, placed |-> outcomes]

\* An executeOrder whose end does not leave step submitting
ExecStoppedSubmitting(e) ==
    /\ sent' = e.sent
    /\ placed' = e.placed
    /\ orderResults' = <<>>
    /\ step' = "submitting"
    /\ execRun' = ExecRun(e)

\* The state when executeOrder stops at e: suspended, or completed; what the
\* returned activation held (pc "none") stays on record until the Planner
\* unmounts
ExecStopped(e) ==
    /\ sent' = e.sent
    /\ placed' = e.placed
    /\ IF e.pc = "done"
       THEN /\ orderResults' = e.results
            /\ step' = "completed"
            /\ execRun' = ExecRun([e EXCEPT !.pc = "none"])
       ELSE /\ orderResults' = <<>>
            /\ step' = "submitting"
            /\ execRun' = ExecRun(e)

\* executeOrder, from the click on confirm (disabled for an empty plan) to its
\* first await
ExecuteOrder ==
    /\ showPlanner /\ step = "review"
    /\ Len(plan) > 0
    /\ LET e == Running([NoExecRun EXCEPT
                        !.plan = plan,
                        !.existing = ExistingOrderWithAddress(weekStatus),
                        !.defaultAddressId = prefs.defaultAddressId,
                        !.i = 1], <<>>, <<>>)
           next ==
               IF ~Falsy(prefs.defaultAddressId)
               THEN [e EXCEPT
                        !.pc = "sampleAddresses",
                        !.key = CacheKey(SampleNamespace(plan)),
                        !.sent = Append(@, AddressRequest(0,
                                    CacheKey(SampleNamespace(plan)),
                                    SampleNamespace(plan)))]
               ELSE FromExistingOrder(e)
       IN  \E r \in {next} : ExecStopped(r)
    /\ UNCHANGED <<appVars, slotsToFill, plan, errorMsg, configForm, planRun,
                   gwpVars>>

\* getAddresses returned or threw; getAddressesForNamespace caches the result
\* under the key, reports a failure on the console only (failed holds the keys
\* so reported) and the activation goes on from where it awaited
AddressesReturned ==
    /\ execRun.pc \in {"sampleAddresses", "existingAddresses", "itemAddresses"}
    /\ \E outcome \in {"throw", "ok"} :
       \E response \in AddressResponses(execRun.key) :
        LET entry == IF outcome = "throw" THEN NoAddresses
                     ELSE GetAddresses(response)
            e == [Running(execRun, sent, placed) EXCEPT
                    !.addressCache = (execRun.key :> entry) @@ @,
                    !.failed = IF outcome = "throw"
                               THEN @ \cup {execRun.key} ELSE @]
            next ==
                CASE execRun.pc = "sampleAddresses" ->
                    FromExistingOrder([e EXCEPT
                        !.defaultAddressName =
                            NameOfId(entry, e.defaultAddressId)])
                  [] execRun.pc = "existingAddresses" ->
                    Loop([e EXCEPT
                        !.defaultAddressName =
                            NameOfId(entry, e.existing[1].userAddressUniqueId)])
                  [] execRun.pc = "itemAddresses" ->
                    Resolve(e, entry)
        IN  \E r \in {next} : ExecStopped(r)
    /\ UNCHANGED <<appVars, slotsToFill, plan, errorMsg, configForm, planRun,
                   gwpVars>>

\* placeOrder returned; its return value is not read
OrderPlaced ==
    /\ execRun.pc = "placeOrder"
    /\ \E outcome \in OrderOutcomes :
        LET e == Running(execRun, sent, placed)
            error == ItemError(PlaceOrder(outcome))
            next == Loop([e EXCEPT
                !.results = Append(@, OrderResult(e.plan[e.i], error)),
                !.placed = Append(@, IF outcome = "SUCCESSFUL"
                                     THEN "PLACED" ELSE "REFUSED"),
                !.i = @ + 1])
        IN  \E r \in {next} : ExecStopped(r)
    /\ UNCHANGED <<appVars, slotsToFill, plan, errorMsg, configForm, planRun,
                   gwpVars>>

\* onOrdersPlaced, the button of the completed view: the App closes the Planner
\* and refetches the calendar
OnOrdersPlaced ==
    /\ showPlanner /\ step = "completed"
    /\ Unmount
    /\ UNCHANGED <<tz, editVars, backendVars, calendarIsError, weekStatus, prefs, prefsWrites, gwpVars>>

(***************************************************************************)
(* The planner's specification                                             *)
(***************************************************************************)

Init ==
    /\ tz = 8
    /\ calendarIsError = FALSE
    /\ weekStatus \in Weeks
    /\ prefs \in InitialPrefs
    /\ showPlanner = FALSE
    /\ prefsWrites = <<>>
    /\ PlannerUnmounted
    /\ EditIdle
    /\ BackendIdle
    /\ GwpIdle

Next ==
    \/ OpenPlanner
    \/ Cancel
    \/ CalendarRefetch
    \/ StartPlanning
    \/ MenuReturned
    \/ HistoryReturned
    \/ PlanGenerated
    \/ PlanReady
    \/ Retry
    \/ RemovePlanItem
    \/ ExecuteOrder
    \/ AddressesReturned
    \/ OrderPlaced
    \/ OnOrdersPlaced

Spec == Init /\ [][Next]_vars

\* C1: in the completed step the result list has one entry per proposal of
\* the approved plan, in plan order: entry i carries the date and the dish
\* name of proposal i, whatever the address and order requests answered.
C1_OneResultPerProposal ==
    step = "completed" =>
        /\ Len(orderResults) = Len(plan)
        /\ \A i \in DOMAIN plan :
            /\ orderResults[i].date = plan[i].date
            /\ orderResults[i].dishName = plan[i].dish.name

\* A completed run of two proposals with different dishes, the first without
\* an address, the second refused
C1_Witness ==
    /\ step = "completed"
    /\ Len(plan) = 2
    /\ plan[1].dish.name # plan[2].dish.name
    /\ placed = <<"NOT_SENT", "REFUSED">>

\* C2: a proposal whose place-order request failed has a result with success
\* false and an error message; a proposal whose order was not placed is never
\* recorded as succeeded.
C2_FailedOrderRecordedFailed ==
    step = "completed" =>
        \A i \in DOMAIN placed :
            /\ placed[i] # "PLACED" => ~orderResults[i].success
            /\ placed[i] = "REFUSED" => ~Falsy(orderResults[i].message)

\* The ids of a namespace's cache entry
EntryIds(entry) ==
    {entry.addresses[k].uniqueId : k \in DOMAIN entry.addresses}
    \cup (IF Falsy(entry.defaultAddressId) THEN {}
          ELSE {entry.defaultAddressId})

\* C6: the address id of every order request of a proposal that carries no
\* address of its own is an id of the cache entry this run holds under the
\* proposal's own namespace key (ids differ between namespaces, so it is not
\* the stored default id unless that entry lists it, nor an id of another
\* namespace).
C6_AddressFromOwnNamespace ==
    \A k \in DOMAIN sent :
        sent[k].op = "order" =>
            LET item == execRun.plan[sent[k].i]
                key == OrElse(item.namespace, "default")
            IN  Falsy(item.userAddressUniqueId) =>
                    /\ key \in DOMAIN execRun.addressCache
                    /\ sent[k].corpAddressUniqueId
                            \in EntryIds(execRun.addressCache[key])

\* The second proposal, of namespace nsB, is ordered to nsB's address of the
\* name learned in nsA, while the stored default id is nsA's and nsA's entry
\* does not list it
C6_Witness ==
    /\ execRun.pc = "placeOrder"
    /\ execRun.i = 2
    /\ execRun.defaultAddressId = "a2"
    /\ execRun.plan[1].namespace = "nsA"
    /\ execRun.plan[2].namespace = "nsB"
    /\ "a2" \notin EntryIds(execRun.addressCache["nsA"])
    /\ execRun.defaultAddressName = "HQ"
    /\ sent[Len(sent)].corpAddressUniqueId = "b1"

\* Proposal i carries no address and its namespace's cache entry lists none
NoUsableAddress(i) ==
    LET item == execRun.plan[i]
        key == OrElse(item.namespace, "default")
    IN  /\ Falsy(item.userAddressUniqueId)
        /\ key \in DOMAIN execRun.addressCache
        /\ Len(execRun.addressCache[key].addresses) = 0

OrderRequested(i) == \E k \in DOMAIN sent : sent[k].op = "order" /\ sent[k].i = i

\* C7: a processed proposal without a carried address whose namespace has no
\* usable address has a failed result with the message 'No valid address
\* found for namespace X', no order request was sent for it, and in the
\* completed step every later proposal has its own result, with an order
\* request if it has an address.
C7_NoAddressFailsOnlyItem ==
    \A i \in DOMAIN execRun.results :
        NoUsableAddress(i) =>
            /\ ~execRun.results[i].success
            /\ execRun.results[i].message =
                    "No valid address found for namespace "
                        \o OrElse(execRun.plan[i].namespace, "unknown")
            /\ ~OrderRequested(i)
            /\ step = "completed" =>
                    \A j \in (i + 1)..Len(plan) :
                        /\ j \in DOMAIN orderResults
                        /\ orderResults[j].date = plan[j].date
                        /\ orderResults[j].dishName = plan[j].dish.name
                        /\ ~NoUsableAddress(j) => OrderRequested(j)

\* A completed run whose first proposal had no address and whose second was
\* ordered
C7_Witness ==
    /\ step = "completed"
    /\ Len(plan) = 2
    /\ NoUsableAddress(1)
    /\ placed = <<"NOT_SENT", "PLACED">>

\* C9: a generation that fails or yields no usable proposal ends the run in
\* step error; generation goes on to the review only with a non-empty plan,
\* and the review is entered from a run only so.
C9_NoReviewWithoutPlan ==
    [][/\ (step' = "review" /\ step # "review") =>
            (planRun.pc = "planReady" /\ Len(plan') > 0)
       /\ (planRun.pc = "generate" /\ planRun'.pc = "planReady") =>
            (Len(plan') > 0 /\ step' # "review")
       /\ (planRun.pc = "generate" /\ planRun'.pc = "none" /\ showPlanner') =>
            step' = "error"]_vars

\* A regeneration from the review that produced no usable proposal
C9_Witness ==
    /\ step = "error"
    /\ errorMsg = "planner.aiGenFailed"
    /\ Len(plan) > 0

(***************************************************************************)
(* The planner from an incomplete AI configuration, up to the review: an   *)
(* order run ends with the Planner unmounted, as Cancel does               *)
(***************************************************************************)

InitConfig ==
    /\ tz = 8
    /\ calendarIsError = FALSE
    /\ weekStatus \in Weeks
    /\ prefs \in IncompletePrefs
    /\ showPlanner = FALSE
    /\ prefsWrites = <<>>
    /\ PlannerUnmounted
    /\ EditIdle
    /\ BackendIdle
    /\ GwpIdle

NextConfig ==
    \/ OpenPlanner
    \/ Cancel
    \/ CalendarRefetch
    \/ SetFormProvider
    \/ SetFormField
    \/ SaveAiConfig
    \/ PrefsSaved
    \/ StartPlanning
    \/ MenuReturned
    \/ HistoryReturned
    \/ PlanGenerated
    \/ PlanReady
    \/ Retry

SpecConfig == InitConfig /\ [][NextConfig]_vars

\* C8: when no slot is eligible as the Planner opens or as startPlanning is
\* invoked, the step becomes fully_planned and the run issues no request.
C8_EmptyEligibleFullyPlanned ==
    [][/\ (OpenPlanner /\ Len(slotsToFill') = 0) =>
            (step' = "fully_planned" /\ sent' = <<>>)
       /\ (StartPlanning /\ Len(slotsToFill) = 0) =>
            (step' = "fully_planned" /\ sent' = <<>>
                /\ planRun'.pc = "none")]_vars

\* The completeness of the selected provider's configuration, as C10 words it
ConfigComplete(p) ==
    IF p.aiProvider = "custom"
    THEN p.customAiBaseUrl # "" /\ p.customAiApiKey # ""
    ELSE p.geminiApiKey # ""

\* The step appended a planning request to the log
PlanningRequestSent ==
    /\ Len(sent') > 0
    /\ sent' # sent
    /\ sent'[Len(sent')].op \in {"menu", "history", "generate"}

\* What C10 says of startPlanning and of requests
ConfigCheckedFirst ==
    /\ (StartPlanning /\ ~ConfigComplete(prefs)) =>
            (step' = "ai_config" /\ sent' = <<>> /\ planRun'.pc = "none")
    /\ PlanningRequestSent => ConfigComplete(prefs)

\* C10 as stated: startPlanning with an incomplete configuration moves to
\* ai_config without a request, a request is issued only with a complete
\* configuration, and after saveAiConfig the step is idle.
C10_IdleAfterSave ==
    [][ConfigCheckedFirst /\ (SaveAiConfig => step' = "idle")]_vars

\* C10, amended: as stated, but after saveAiConfig the step is idle when a
\* slot is eligible and fully_planned when none is.
C10_IdleOrFullyPlannedAfterSave ==
    [][/\ ConfigCheckedFirst
       /\ SaveAiConfig =>
            step' = (IF Len(slotsToFill) = 0 THEN "fully_planned"
                     ELSE "idle")]_vars

\* The configuration was saved when no slot was eligible any more
C10_Witness ==
    /\ step = "fully_planned"
    /\ configForm.preheated
    /\ Len(prefsWrites) = 1
    /\ prefsWrites[1] = configForm.fields
    /\ ConfigComplete(prefsWrites[1])
    /\ ~ConfigComplete(prefs)

(***************************************************************************)
(* The session from the first calendar fetch: the planner up to the review *)
(***************************************************************************)

\* App: the calendar query settled; when its fetch failed it has no data and
\* weekStatus takes its default []
InitSession ==
    /\ tz = 8
    /\ \/ calendarIsError = FALSE /\ weekStatus \in Weeks
       \/ calendarIsError = TRUE /\ weekStatus = <<>>
    /\ prefs \in InitialPrefs
    /\ showPlanner = FALSE
    /\ prefsWrites = <<>>
    /\ PlannerUnmounted
    /\ EditIdle
    /\ BackendIdle
    /\ GwpIdle

NextSession ==
    \/ OpenPlanner
    \/ Cancel
    \/ CalendarRefetch
    \/ StartPlanning
    \/ MenuReturned
    \/ HistoryReturned
    \/ PlanGenerated
    \/ PlanReady
    \/ Retry

SpecSession == InitSession /\ [][NextSession]_vars

\* C11: while the calendar read of the session has failed, a mounted Planner
\* is in none of the steps idle, fully_planned, review and submitting.
C11_FailedCalendarIsFatal ==
    (showPlanner /\ calendarIsError) =>
        step \notin {"idle", "fully_planned", "review", "submitting"}

(***************************************************************************)
(* The single-slot edit path: App.canEditSlot and OrderEditModal           *)
(*                                                                         *)
(* An instant is a count of minutes of local time.  The text of a          *)
(* date-time is a sequence of tokens: a date "YYYY-MM-DD" (its day         *)
(* number), a time of day "HH:mm" (its minutes), a space, the letter T.    *)
(* An absent closeTime and the empty one are both the empty text.          *)
(***************************************************************************)

DateTok(d) == [kind |-> "date", v |-> d]
TimeTok(m) == [kind |-> "time", v |-> m]
SpaceTok == [kind |-> " ", v |-> 0]
TTok == [kind |-> "T", v |-> 0]

\* text.includes('-'): of the tokens only a date holds a hyphen
IncludesHyphen(text) == \E k \in DOMAIN text : text[k].kind = "date"

\* text.replace(' ', 'T'): the first space only
ReplaceSpace(text) ==
    LET k == Find([i \in DOMAIN text |-> text[i] = SpaceTok])
    IN  IF k = 0 THEN text ELSE [text EXCEPT ![k] = TTok]

\* new Date(text) is a date unless Invalid Date: text of the form
\* YYYY-MM-DDTHH:mm, which carries no offset, is read as local time
ValidDate(text) ==
    /\ Len(text) = 3
    /\ text[1].kind = "date"
    /\ text[2] = TTok
    /\ text[3].kind = "time"

DateParse(text) == text[1].v * (24 * 60) + text[3].v

\* a <= b on Dates
DateNotAfter(t, text) == ValidDate(text) /\ t <= DateParse(text)

\* a < b on Dates; a comparison with Invalid Date is false
DateBefore(t, text) == ValidDate(text) /\ t < DateParse(text)

\* The DailyStatus fields the edit path reads, with those of Slot
EditSlot(date, status, closeTime, order) ==
    [date |-> date, mealTime |-> "LUNCH", status |-> status,
     tabUniqueId |-> "tabL", userAddressUniqueId |-> Undefined,
     namespace |-> "nsA", closeTime |-> closeTime, orderUniqueId |-> order,
     currentOrder |-> IF order = Undefined THEN Undefined ELSE "dish"]

\* App.canEditSlot at instant t; mealItem is <<>> for a cell without item
CanEditSlot(mealItem, t) ==
    IF mealItem = <<>> THEN FALSE
    ELSE LET slot == mealItem[1] IN
         IF slot.status = "CLOSED" THEN FALSE
         ELSE IF slot.closeTime = <<>> THEN TRUE
         ELSE IF IncludesHyphen(slot.closeTime)
              THEN DateBefore(t, ReplaceSpace(slot.closeTime))
              ELSE DateBefore(t, <<DateTok(slot.date), TTok>> \o slot.closeTime)

\* OrderEditModal.isModificationAllowed at instant t
IsModificationAllowed(slot, t) ==
    IF slot.closeTime = <<>> THEN TRUE
    ELSE IF IncludesHyphen(slot.closeTime)
         THEN DateBefore(t, ReplaceSpace(slot.closeTime))
         ELSE DateBefore(t, <<DateTok(slot.date), TTok>> \o slot.closeTime)

\* The modal's view as rendered at instant t
Render(slot, t) ==
    IF IsModificationAllowed(slot, t) THEN "form" ELSE "deadline"

\* `${date}-${mealTime}`
SlotKey(slot) == <<slot.date, slot.mealTime>>

\* dayItems.find(i => i.mealTime === meal.id) of cell k; cell 0 has no item
MealItem(k) == IF k = 0 THEN <<>> ELSE <<weekStatus[k]>>

\* Slots of day 10 and day 11 that close at 10:00, seen at 09:00, 10:00 and
\* 11:00 of day 10
EditDays == {10, 11}
Clock == {9 * 60, 10 * 60, 11 * 60}
Instants == {10 * (24 * 60) + m : m \in Clock}

CloseTimes ==
    {<<>>, <<TimeTok(10 * 60)>>, <<DateTok(10), SpaceTok, TimeTok(10 * 60)>>}

\* A slot has an order exactly when its status is ORDER or it is closed
\* with an order
EditSlots ==
    {EditSlot(d, st, ct, o) :
        d \in EditDays, st \in {"AVAILABLE"}, ct \in CloseTimes,
        o \in {Undefined}}
    \cup {EditSlot(d, st, ct, o) :
        d \in EditDays, st \in {"ORDER", "CLOSED"}, ct \in CloseTimes,
        o \in {"o1"}}

EditWeeks == {<<s>> : s \in EditSlots}

\* deleteOrder at the upstream outcome: it catches every failure
DeleteOutcomes == {"SUCCESSFUL", "FAILED", "HTTP_ERROR", "NETWORK_ERROR"}
DeleteOrder(outcome) == [threw |-> FALSE, success |-> outcome = "SUCCESSFUL"]

EditRequest(op, handler, slot, t) ==
    [op |-> op, handler |-> handler, slot |-> slot, at |-> t,
     outcome |-> "pending", updated |-> FALSE]

\* The request the running handler awaits is the last one sent
Returned(outcome, updated) ==
    [edits EXCEPT ![Len(edits)].outcome = outcome,
                  ![Len(edits)].updated = updated]

editRest == <<tz, backendVars, calendarIsError, prefs, showPlanner, prefsWrites,
              plannerVars, runVars, gwpVars>>

\* Time passes; nothing is rendered
Tick ==
    /\ \E t \in Instants : t > now /\ now' = t
    /\ UNCHANGED <<editingSlot, loadingSlotId, modal, edits, weekStatus,
                   editRest>>

\* App: click on the cell of meal k.  One handler activation of the modal at
\* a time: a slot is opened once the previous modal's handler has returned.
ClickSlot(k) ==
    /\ editingSlot = <<>>
    /\ ~showPlanner
    /\ modal.pc = "none"
    /\ MealItem(k) # <<>>
    /\ loadingSlotId # SlotKey(weekStatus[k])
    /\ CanEditSlot(MealItem(k), now)
    /\ editingSlot' = MealItem(k)
    /\ modal' = [view |-> Render(weekStatus[k], now), selectedDish |-> FALSE,
                 error |-> Undefined, pc |-> "idle", slot |-> <<>>]
    /\ edits' = <<>>
    /\ UNCHANGED <<now, loadingSlotId, weekStatus, editRest>>

\* OrderEditModal: onClose; a handler awaiting a reply keeps running
CloseModal ==
    /\ editingSlot # <<>>
    /\ editingSlot' = <<>>
    /\ modal' = IF modal.pc \in {"idle", "none"} THEN NoModal
                ELSE [modal EXCEPT !.view = "none"]
    /\ UNCHANGED <<now, loadingSlotId, edits, weekStatus, editRest>>

\* OrderEditModal: a dish is selected or deselected, and the modal renders
SelectDish ==
    /\ editingSlot # <<>>
    /\ modal.view = "form"
    /\ modal' = [modal EXCEPT !.selectedDish = ~modal.selectedDish,
                              !.view = Render(editingSlot[1], now)]
    /\ UNCHANGED <<now, editingSlot, loadingSlotId, edits, weekStatus, editRest>>

\* OrderEditModal.handleDelete up to its await
HandleDelete ==
    /\ editingSlot # <<>>
    /\ modal.view = "form"
    /\ modal.pc = "idle"
    /\ LET slot == editingSlot[1] IN
        /\ slot.currentOrder # Undefined
        /\ IF Falsy(slot.orderUniqueId)
           THEN /\ modal' = [modal EXCEPT !.error = "No order to delete",
                                          !.view = Render(slot, now)]
                /\ UNCHANGED edits
           ELSE /\ edits' = Append(edits,
                                   EditRequest("delete", "handleDelete", slot, now))
                /\ modal' = [modal EXCEPT !.error = Undefined,
                                          !.pc = "deleting",
                                          !.slot = <<slot>>,
                                          !.view = Render(slot, now)]
    /\ UNCHANGED <<now, editingSlot, loadingSlotId, weekStatus, editRest>>

\* App: onOrderUpdated of the modal of slot
OnOrderUpdated(slot) ==
    /\ loadingSlotId' = SlotKey(slot)
    /\ editingSlot' = <<>>
    /\ modal' = NoModal

\* The handler caught an error: setError, which an unmounted modal ignores
HandlerFailed(message) ==
    /\ modal' = IF modal.view = "none" THEN NoModal
                ELSE [modal EXCEPT !.error = message, !.pc = "idle",
                                   !.slot = <<>>,
                                   !.view = Render(modal.slot[1], now)]
    /\ UNCHANGED <<editingSlot, loadingSlotId>>

\* handleDelete after its await
DeleteReturned ==
    /\ modal.pc = "deleting"
    /\ \E outcome \in DeleteOutcomes :
        IF DeleteOrder(outcome).threw
        THEN /\ edits' = Returned(outcome, FALSE)
             /\ HandlerFailed("Failed to delete order")
        ELSE /\ edits' = Returned(outcome, TRUE)
             /\ OnOrderUpdated(modal.slot[1])
    /\ UNCHANGED <<now, weekStatus, editRest>>

\* OrderEditModal.handleOrder up to its first await
HandleOrder ==
    /\ editingSlot # <<>>
    /\ modal.view = "form"
    /\ modal.pc = "idle"
    /\ modal.selectedDish
    /\ LET slot == editingSlot[1] IN
        /\ ~Falsy(slot.tabUniqueId)
        /\ IF ~Falsy(slot.orderUniqueId)
           THEN /\ edits' = Append(edits,
                                   EditRequest("delete", "handleOrder", slot, now))
                /\ modal' = [modal EXCEPT !.error = Undefined,
                                          !.pc = "replacing",
                                          !.slot = <<slot>>,
                                          !.view = Render(slot, now)]
           ELSE /\ edits' = Append(edits,
                                   EditRequest("place", "handleOrder", slot, now))
                /\ modal' = [modal EXCEPT !.error = Undefined,
                                          !.pc = "placing",
                                          !.slot = <<slot>>,
                                          !.view = Render(slot, now)]
    /\ UNCHANGED <<now, editingSlot, loadingSlotId, weekStatus, editRest>>

\* handleOrder after the delete of the existing order: the new order is sent
ReplaceDeleteReturned ==
    /\ modal.pc = "replacing"
    /\ \E outcome \in DeleteOutcomes :
        IF DeleteOrder(outcome).threw
        THEN /\ edits' = Returned(outcome, FALSE)
             /\ HandlerFailed("Failed to place order")
        ELSE /\ edits' = Append(Returned(outcome, FALSE),
                                EditRequest("place", "handleOrder",
                                            modal.slot[1], now))
             /\ modal' = [modal EXCEPT
                            !.pc = "placing",
                            !.view = IF modal.view = "none" THEN "none"
                                     ELSE Render(modal.slot[1], now)]
             /\ UNCHANGED <<editingSlot, loadingSlotId>>
    /\ UNCHANGED <<now, weekStatus, editRest>>

\* handleOrder after placeOrder, which returns and never throws
PlaceReturned ==
    /\ modal.pc = "placing"
    /\ \E outcome \in OrderOutcomes :
        /\ edits' = Returned(outcome, TRUE)
        /\ OnOrderUpdated(modal.slot[1])
    /\ UNCHANGED <<now, weekStatus, editRest>>

\* App: the calendar reload started by onOrderUpdated has resolved
CalendarReloaded ==
    /\ loadingSlotId # <<>>
    /\ loadingSlotId' = <<>>
    /\ weekStatus' \in EditWeeks
    /\ UNCHANGED <<now, editingSlot, modal, edits, editRest>>

InitEdit ==
    /\ tz = 8
    /\ calendarIsError = FALSE
    /\ weekStatus \in EditWeeks
    /\ prefs \in {Prefs("gemini", "key", "", "", FALSE, Undefined)}
    /\ showPlanner = FALSE
    /\ prefsWrites = <<>>
    /\ PlannerUnmounted
    /\ GwpIdle
    /\ now \in Instants
    /\ editingSlot = <<>>
    /\ loadingSlotId = <<>>
    /\ modal = NoModal
    /\ edits = <<>>
    /\ BackendIdle

NextEdit ==
    \/ Tick
    \/ \E k \in 0..Len(weekStatus) : ClickSlot(k)
    \/ CloseModal
    \/ SelectDish
    \/ HandleDelete
    \/ DeleteReturned
    \/ HandleOrder
    \/ ReplaceDeleteReturned
    \/ PlaceReturned
    \/ CalendarReloaded

SpecEdit == InitEdit /\ [][NextEdit]_vars

\* The modification deadline of a slot that has a closeTime: the closeTime
\* itself when it is a full date-time, else the slot's date at that time
Deadline(slot) ==
    LET ct == slot.closeTime
    IN  IF Len(ct) = 3 THEN ct[1].v * 1440 + ct[3].v
        ELSE slot.date * 1440 + ct[1].v

\* C12: canEditSlot at the current time is false for a missing slot or a
\* CLOSED one, true for a slot without closeTime, and otherwise true exactly
\* when the time is strictly before the deadline; a slot of day 10 closing
\* at 10:00 is not editable at 11:00 of that day and editable at 09:00.
C12_CanEditSlotIffBeforeDeadline ==
    /\ \A k \in 0..Len(weekStatus) :
        CanEditSlot(MealItem(k), now) =
            IF k = 0 THEN FALSE
            ELSE IF weekStatus[k].status = "CLOSED" THEN FALSE
            ELSE IF weekStatus[k].closeTime = <<>> THEN TRUE
            ELSE now < Deadline(weekStatus[k])
    /\ LET slot == EditSlot(10, "AVAILABLE", <<TimeTok(600)>>, Undefined)
       IN  /\ ~CanEditSlot(<<slot>>, 10 * 1440 + 660)
           /\ CanEditSlot(<<slot>>, 10 * 1440 + 540)

\* A modal was opened on a slot with a bare time of day as closeTime while
\* another instant of the same calendar lies at or past its deadline
C12_Witness ==
    /\ editingSlot # <<>>
    /\ Len(editingSlot[1].closeTime) = 1
    /\ weekStatus = editingSlot
    /\ now < Deadline(editingSlot[1])
    /\ modal.view = "form"

\* C13: every delete or place request of the modal for a slot that has a
\* modification deadline was sent at a time strictly before that deadline,
\* whenever the modal was opened.
C13_RequestsBeforeDeadline ==
    \A k \in DOMAIN edits :
        edits[k].slot.closeTime # <<>> =>
            edits[k].at < Deadline(edits[k].slot)

\* C15: a delete request of handleDelete that failed (network error, non-2xx
\* reply, or an upstream status other than SUCCESSFUL) is not followed by
\* onOrderUpdated.
C15_FailedDeleteNotReported ==
    \A k \in DOMAIN edits :
        (/\ edits[k].handler = "handleDelete"
         /\ edits[k].outcome \notin {"pending", "SUCCESSFUL"})
            => ~edits[k].updated

\* C14: in steps submitting and completed no cancel is enabled; a submitting
\* Planner stays mounted and moves only to completed, and a completed Planner
\* is left only by onOrdersPlaced, which closes it.
C14_NoCancelOnceBatchStarted ==
    /\ []((showPlanner /\ step \in {"submitting", "completed"})
            => ~ENABLED Cancel)
    /\ [][(showPlanner /\ step = "submitting")
            => (showPlanner' /\ step' \in {"submitting", "completed"})]_vars
    /\ [][(showPlanner /\ step = "completed")
            => (step' = "completed" \/ (OnOrdersPlaced /\ ~showPlanner'))]_vars

\* A batch in progress with one result recorded and a request pending
C14_Witness ==
    /\ showPlanner
    /\ step = "submitting"
    /\ Len(execRun.results) = 1
    /\ execRun.pc # "none"

C17_OneAddressRequestPerKey ==
    /\ \A k1, k2 \in DOMAIN sent :
        (/\ k1 < k2
         /\ sent[k1].op = "addresses"
         /\ sent[k2].op = "addresses")
            => CacheKey(sent[k1].namespace) # CacheKey(sent[k2].namespace)
    /\ \A key \in execRun.failed :
        /\ key \in DOMAIN execRun.addressCache
        /\ execRun.addressCache[key].addresses = <<>>
    /\ \A i \in DOMAIN execRun.results :
        (/\ Falsy(execRun.plan[i].userAddressUniqueId)
         /\ CacheKey(execRun.plan[i].namespace) \in execRun.failed)
            => execRun.results[i].message
                    = "No valid address found for namespace "
                        \o OrElse(execRun.plan[i].namespace, "unknown")

\* A completed run of two proposals of one key, neither with an address of
\* its own, whose single address request failed
C17_Witness ==
    /\ step = "completed"
    /\ Len(execRun.plan) = 2
    /\ \A i \in 1..2 : Falsy(execRun.plan[i].userAddressUniqueId)
    /\ CacheKey(execRun.plan[1].namespace) = CacheKey(execRun.plan[2].namespace)
    /\ CacheKey(execRun.plan[1].namespace) \in execRun.failed
    /\ Len(execRun.results) = 2

\* C18: when the loop sends the order of a proposal without address of its
\* own and the list of its namespace has no entry with the preferred name, or
\* no preferred name is captured, the id submitted is the list's suggested
\* default id if it has one, else the id of its first address; and a
\* preferred name not captured before becomes the name of the address so
\* chosen, while a captured one stays.
C18_FallbackLearnsChosenName ==
    [][LET i == execRun'.i
           item == execRun'.plan[i]
           entry == execRun'.addressCache[CacheKey(item.namespace)]
           name == execRun.defaultAddressName
       IN  (/\ execRun.pc \in {"itemAddresses", "placeOrder"}
            /\ execRun'.pc = "placeOrder"
            /\ Falsy(item.userAddressUniqueId)
            /\ (Falsy(name) \/ Falsy(IdOfName(entry, name))))
           => /\ execRun'.addressIdToUse =
                    OrElse(entry.defaultAddressId, entry.addresses[1].uniqueId)
              /\ sent'[Len(sent')].op = "order"
              /\ sent'[Len(sent')].i = i
              /\ sent'[Len(sent')].corpAddressUniqueId = execRun'.addressIdToUse
              /\ execRun'.defaultAddressName =
                    IF Falsy(name)
                    THEN NameOfId(entry, execRun'.addressIdToUse)
                    ELSE name]_vars

\* C19: the order of a proposal that carries an address id is sent with that
\* id and no address request is made for that proposal; every order request
\* carries one id as both corp address and user address; and when the loop
\* sends the order of a proposal without address of its own while a
\* preferred name is captured that an entry of its namespace's list bears,
\* the id sent is that entry's, whatever the list's suggested default.
C19_AddressPrecedence ==
    /\ [](\A k \in DOMAIN sent :
            sent[k].op = "order" =>
                /\ sent[k].userAddressUniqueId = sent[k].corpAddressUniqueId
                /\ ~Falsy(sent[k].corpAddressUniqueId)
                /\ LET own == execRun.plan[sent[k].i].userAddressUniqueId
                   IN  ~Falsy(own) =>
                        /\ sent[k].corpAddressUniqueId = own
                        /\ \A j \in DOMAIN sent :
                            ~(sent[j].op = "addresses" /\ sent[j].i = sent[k].i))
    /\ [][LET i == execRun'.i
              item == execRun'.plan[i]
              entry == execRun'.addressCache[CacheKey(item.namespace)]
              name == execRun.defaultAddressName
          IN  (/\ execRun.pc \in {"itemAddresses", "placeOrder"}
               /\ execRun'.pc = "placeOrder"
               /\ Falsy(item.userAddressUniqueId)
               /\ ~Falsy(name)
               /\ \E a \in Range(entry.addresses) : a.name = name)
              => /\ \E a \in Range(entry.addresses) :
                    a.name = name /\ a.uniqueId = execRun'.addressIdToUse
                 /\ sent'[Len(sent')].op = "order"
                 /\ sent'[Len(sent')].i = i
                 /\ sent'[Len(sent')].corpAddressUniqueId
                        = execRun'.addressIdToUse]_vars

\* An order pending for a proposal without address of its own, sent with the
\* id of the entry bearing the preferred name while the list suggests
\* another id as default
C19_Witness ==
    /\ execRun.pc = "placeOrder"
    /\ Falsy(execRun.plan[execRun.i].userAddressUniqueId)
    /\ ~Falsy(execRun.defaultAddressName)
    /\ LET entry ==
            execRun.addressCache[CacheKey(execRun.plan[execRun.i].namespace)]
       IN  /\ ~Falsy(entry.defaultAddressId)
           /\ entry.defaultAddressId # execRun.addressIdToUse
           /\ \E a \in Range(entry.addresses) :
                /\ a.name = execRun.defaultAddressName
                /\ a.uniqueId = execRun.addressIdToUse
    /\ sent[Len(sent)].corpAddressUniqueId = execRun.addressIdToUse

\* The requests of a kind sent by the run, and those of them answered
SentOf(op) == {k \in DOMAIN sent : sent[k].op = op}
OrdersAnswered == {i \in DOMAIN placed : placed[i] # "NOT_SENT"}

\* C20: during a run at most one address or order request is unanswered, and
\* when a request of proposal i has been sent the results of the proposals
\* before i are in the result list.
C20_OneRequestInFlight ==
    (step \in {"submitting", "completed"}) =>
        /\ (Cardinality(SentOf("order")) - Cardinality(OrdersAnswered))
            + (Cardinality(SentOf("addresses"))
                - Cardinality(DOMAIN execRun.addressCache)) \in {0, 1}
        /\ \A k \in DOMAIN sent :
            sent[k].i >= 1 => Len(execRun.results) >= sent[k].i - 1
        /\ step = "completed" =>
            /\ Cardinality(SentOf("order")) = Cardinality(OrdersAnswered)
            /\ Cardinality(SentOf("addresses"))
                = Cardinality(DOMAIN execRun.addressCache)

\* The order of the second proposal pending after an address request of its
\* own, the first proposal's order answered and its result recorded
C20_Witness ==
    /\ step = "submitting"
    /\ execRun.pc = "placeOrder"
    /\ execRun.i = 2
    /\ Len(execRun.results) = 1
    /\ placed = <<"PLACED">>
    /\ \E k \in DOMAIN sent : sent[k].op = "addresses" /\ sent[k].i = 2

\* The slots of the run that have a tab, from position i on
TabSlotsFrom(i) ==
    {k \in DOMAIN planRun.slots :
        k >= i /\ ~Falsy(planRun.slots[k].tabUniqueId)}

C22_HistoryFailureNotFatal ==
    /\ [](planRun.historyFailed =>
            /\ planRun.history = <<>>
            /\ planRun.pc \in {"generate", "planReady"}
            /\ step = "planning")
    /\ [][(planRun.pc = "history" /\ showPlanner') =>
            /\ planRun'.pc = "generate"
            /\ step' = "planning"
            /\ sent' = Append(sent, GenerateRequest)]_vars
    /\ [][(planRun.pc = "planReady" /\ showPlanner') => step' = "review"]_vars

\* A plan made after the history request failed, about to be shown for review
C22_Witness ==
    /\ planRun.historyFailed
    /\ planRun.pc = "planReady"
    /\ Len(plan) > 0

\* C23: the plan changes only by being replaced with what the generation of
\* the current run returned for the slots it enriched, by the removal of one
\* proposal during review, or by the unmounting of the Planner; review is
\* entered only from a run whose generation has just set the plan, and the
\* batch executes the plan under review: no proposal of an earlier generation
\* is in the plan of a review or submitting step.
C23_RegenerateDiscardsProposals ==
    /\ [](step = "submitting" => execRun.plan = plan)
    /\ [][(step' = "review" /\ step # "review")
            => (planRun.pc = "planReady" /\ plan' = plan)]_vars
    /\ [][plan' # plan =>
            \/ /\ planRun.pc = "generate"
               /\ planRun'.pc = "planReady"
               /\ \E response \in Replies(planRun.enrichedSlots) :
                    LET generated ==
                            GenerateWeeklyPlan(planRun.enrichedSlots, response)
                    IN  ~generated.threw /\ plan' = generated.plans
            \/ /\ step = "review" /\ step' = "review"
               /\ Len(plan') = Len(plan) - 1
            \/ ~showPlanner' /\ plan' = <<>>]_vars

\* A regeneration started from review has failed: the proposals of the
\* earlier generation are still held, in step error
C23_Witness ==
    /\ step = "error"
    /\ errorMsg = "planner.aiGenFailed"
    /\ Len(plan) > 0

\* C24: in a replacement by handleOrder the place request is sent only after
\* the delete request has returned; when the delete succeeded and the place
\* request then failed, onOrderUpdated is not called.
C24_FailedReplaceNotReported ==
    \A k \in DOMAIN edits :
        (edits[k].op = "place" /\ k > 1) =>
            /\ edits[k - 1].op = "delete"
            /\ edits[k - 1].outcome # "pending"
            /\ (/\ edits[k - 1].outcome = "SUCCESSFUL"
                /\ edits[k].outcome \notin {"pending", "SUCCESSFUL"})
                    => ~edits[k].updated

(***************************************************************************)
(* Termination of the runs: every pending network call returns or fails,   *)
(* and the pause before the review ends                                    *)
(***************************************************************************)

InitFair ==
    /\ tz = 8
    /\ calendarIsError = FALSE
    /\ weekStatus \in Weeks
    /\ prefs \in InitialPrefs
    /\ showPlanner = FALSE
    /\ prefsWrites = <<>>
    /\ PlannerUnmounted
    /\ EditIdle
    /\ BackendIdle
    /\ GwpIdle

NextFair ==
    \/ OpenPlanner
    \/ Cancel
    \/ StartPlanning
    \/ MenuReturned
    \/ HistoryReturned
    \/ PlanGenerated
    \/ PlanReady
    \/ Retry
    \/ RemovePlanItem
    \/ ExecuteOrder
    \/ AddressesReturned
    \/ OrderPlaced
    \/ OnOrdersPlaced

\* The return of the call a run awaits; a Planner has one run at a time and
\* a run awaits one call at a time, so at most one of these is enabled
CallReturned ==
    \/ MenuReturned
    \/ HistoryReturned
    \/ PlanGenerated
    \/ PlanReady
    \/ AddressesReturned
    \/ OrderPlaced

CallsReturn == WF_vars(CallReturned)

SpecFair == InitFair /\ [][NextFair]_vars /\ CallsReturn

\* C25: a Planner in step fetching or planning has a call of its run pending
\* and, unless it is closed, comes to one of ai_config, fully_planned, review
\* and error; a Planner in step submitting has a call of its batch pending
\* and comes to step completed; whatever the calls return.
C25_RunsEnd ==
    /\ []((showPlanner /\ step \in {"fetching", "planning"})
            => planRun.pc \in {"menu", "history", "generate", "planReady"})
    /\ []((showPlanner /\ step = "submitting")
            => execRun.pc \in {"sampleAddresses", "existingAddresses",
                               "itemAddresses", "placeOrder"})
    /\ (step \in {"fetching", "planning"})
            ~> (~showPlanner
                \/ step \in {"ai_config", "fully_planned", "review", "error"})
    /\ (step = "submitting") ~> (step = "completed")

\* A batch that completed although an address request failed and an order
\* was refused
C25_Witness ==
    /\ step = "completed"
    /\ execRun.failed # {}
    /\ \E i \in DOMAIN placed : placed[i] = "REFUSED"

\* C26: the plans a call returns hold at most one proposal per input slot
\* (date, meal period), whatever the generator replied.
C26_OneProposalPerSlot ==
    \A k1, k2 \in DOMAIN gwpResult.plans :
        (/\ gwpResult.plans[k1].date = gwpResult.plans[k2].date
         /\ gwpResult.plans[k1].mealTime = gwpResult.plans[k2].mealTime)
            => k1 = k2

\* C27: the address id of every order request of a proposal that carries no
\* address of its own is the uniqueId of an entry of the address list this
\* run holds for the proposal's namespace.
C27_AddressIdIsListed ==
    \A k \in DOMAIN sent :
        (/\ sent[k].op = "order"
         /\ Falsy(execRun.plan[sent[k].i].userAddressUniqueId))
            => LET key == CacheKey(execRun.plan[sent[k].i].namespace)
               IN  /\ key \in DOMAIN execRun.addressCache
                   /\ \E a \in Range(execRun.addressCache[key].addresses) :
                        a.uniqueId = sent[k].corpAddressUniqueId

(***************************************************************************)
(* Backend: GET /api/history/orders                                        *)
(*                                                                         *)
(* The handler parses both query dates as UTC midnights, steps with        *)
(* setDate and prints with toISOString; on a server whose zone has no      *)
(* clock change inside the range every instant it handles is a midnight,   *)
(* and is written here as its day number.                                  *)
(***************************************************************************)

\* the browser with nothing open: the state beside which the backend runs
FrontIdle ==
    /\ tz = 8
    /\ calendarIsError = FALSE
    /\ weekStatus = <<>>
    /\ prefs \in {Prefs("gemini", "key", "", "", FALSE, Undefined)}
    /\ showPlanner = FALSE
    /\ prefsWrites = <<>>
    /\ PlannerUnmounted
    /\ GwpIdle
    /\ EditIdle

frontVars == <<tz, editVars, weekStatus, calendarIsError, prefs, showPlanner,
               prefsWrites, plannerVars, runVars, gwpVars>>

chunkDays == 15

MaxHistDay == 33

\* the day the server's clock shows when a request arrives
Todays == {MaxHistDay - 1}

\* a query date: <<>> when the parameter is absent, else <<date>>
BeginDates == {<<>>} \cup {<<d>> : d \in 0 .. 2}
EndDates == {<<>>} \cup {<<d>> : d \in 0 .. MaxHistDay}

\* thirtyDaysAgo.setDate(today.getDate() - 30), printed as a date
ThirtyDaysAgo(today) == today - 30

\* c.req.query(name) || fallback
QueryOr(param, fallback) == IF param = <<>> THEN fallback ELSE param[1]

\* the while test and, when it passes, the body down to the await of
\* getCalendarItems; when it fails, the 200 response
ChunkLoop(h) ==
    IF h.currentStart < h.endDate
    THEN LET end == h.currentStart + chunkDays - 1
             currentEnd == IF end > h.endDate THEN h.endDate ELSE end
         IN  [h EXCEPT !.pc = "chunk",
                       !.chunks = Append(@, [beginDate |-> h.currentStart,
                                             endDate |-> currentEnd])]
    ELSE [h EXCEPT !.pc = "done", !.status = 200]

\* the request arrives: the handler runs to its first await or to its return
GetOrders ==
    /\ historyGet.pc = "idle"
    /\ \E today \in Todays, beginDate \in BeginDates, endDate \in EndDates :
        LET requestedBeginDate == QueryOr(beginDate, ThirtyDaysAgo(today))
            requestedEndDate == QueryOr(endDate, today)
        IN  historyGet' = ChunkLoop([NoHistoryGet EXCEPT
                                        !.startDate = requestedBeginDate,
                                        !.endDate = requestedEndDate,
                                        !.currentStart = requestedBeginDate])
    /\ UNCHANGED <<frontVars, settingsFile, saves, authVars>>

\* getCalendarItems settles: a throw is answered 500, a reply moves
\* currentStart on by chunkDays and the loop goes round
ChunkReturned ==
    /\ historyGet.pc = "chunk"
    /\ \E ok \in BOOLEAN :
        historyGet' =
            IF ok
            THEN ChunkLoop([historyGet EXCEPT !.currentStart = @ + chunkDays])
            ELSE [historyGet EXCEPT !.pc = "failed", !.status = 500]
    /\ UNCHANGED <<frontVars, settingsFile, saves, authVars>>

InitHistory ==
    /\ FrontIdle
    /\ BackendIdle

NextHistory == GetOrders \/ ChunkReturned

SpecHistory == InitHistory /\ [][NextHistory]_vars

\* the dates of one chunk
ChunkDates(chunk) == chunk.beginDate .. chunk.endDate

\* C28: when a request for a range with beginDate <= endDate has been
\* answered 200, every chunk it asked upstream for spans at most chunkDays
\* days, the chunks are disjoint and in increasing order, and every date
\* from beginDate to endDate is in one of them.
C28_ChunksCoverRange ==
    (historyGet.pc = "done" /\ historyGet.startDate <= historyGet.endDate) =>
        LET chunks == historyGet.chunks IN
        /\ \A i \in DOMAIN chunks :
            /\ chunks[i].beginDate <= chunks[i].endDate
            /\ Cardinality(ChunkDates(chunks[i])) <= chunkDays
        /\ \A i \in DOMAIN chunks :
            i < Len(chunks) => chunks[i].endDate < chunks[i + 1].beginDate
        /\ \A d \in historyGet.startDate .. historyGet.endDate :
            \E i \in DOMAIN chunks : d \in ChunkDates(chunks[i])

(***************************************************************************)
(* Backend: POST /api/settings                                             *)
(*                                                                         *)
(* An object is a function from its keys.  The handler suspends at the     *)
(* read of the settings file and at its write; each takes effect at one    *)
(* instant, and handlers of other requests run in between.                 *)
(***************************************************************************)

Usernames == {"", "alice", "bob"}

\* body.settings: <<>> when the body has none, else <<the object>>
NewSettings == {<<>>, <<Empty>>, <<[theme |-> "light"]>>,
                <<[lang |-> "en"]>>, <<[lang |-> "zh"]>>}

\* { ...a, ...b }
Spread(a, b) ==
    [k \in DOMAIN a \cup DOMAIN b |-> IF k \in DOMAIN b THEN b[k] ELSE a[k]]

\* allSettings[username] || {}
SettingsOf(allSettings, username) ==
    IF username \in DOMAIN allSettings THEN allSettings[username] ELSE Empty

\* allSettings[username] = { ...(allSettings[username] || {}), ...newSettings }
Assign(allSettings, username, newSettings) ==
    [u \in DOMAIN allSettings \cup {username} |->
        IF u = username
        THEN Spread(SettingsOf(allSettings, username), newSettings)
        ELSE allSettings[u]]

\* the request arrives: 400 without username or settings, else the handler
\* suspends in readSettings
PostSettings(r) ==
    /\ saves[r].pc = "idle"
    /\ \E username \in Usernames, newSettings \in NewSettings :
        saves' = [saves EXCEPT ![r] =
            IF Falsy(username) \/ newSettings = <<>>
            THEN [@ EXCEPT !.pc = "rejected", !.status = 400]
            ELSE [@ EXCEPT !.pc = "read", !.username = username,
                           !.settings = newSettings[1]]]
    /\ UNCHANGED <<frontVars, historyGet, settingsFile, authVars>>

\* readFile settles with the file as it is now; the handler merges into its
\* copy and suspends in writeSettings
SettingsRead(r) ==
    /\ saves[r].pc = "read"
    /\ saves' = [saves EXCEPT ![r] =
            [@ EXCEPT !.pc = "write",
                      !.allSettings = Assign(settingsFile, saves[r].username,
                                             saves[r].settings)]]
    /\ UNCHANGED <<frontVars, historyGet, settingsFile, authVars>>

\* writeFile settles: the file is this handler's copy; the response is sent
SettingsWritten(r) ==
    /\ saves[r].pc = "write"
    /\ settingsFile' = saves[r].allSettings
    /\ saves' = [saves EXCEPT ![r] = [@ EXCEPT !.pc = "done", !.status = 200]]
    /\ UNCHANGED <<frontVars, historyGet, authVars>>

InitSettings ==
    /\ FrontIdle
    /\ BackendIdle

NextSettings ==
    \E r \in Saves : PostSettings(r) \/ SettingsRead(r) \/ SettingsWritten(r)

SpecSettings == InitSettings /\ [][NextSettings]_vars

\* the saves that were answered 200
Saved == {r \in Saves : saves[r].pc = "done"}

\* every request has been answered
AllAnswered == \A r \in Saves : saves[r].pc \in {"done", "rejected"}

\* C29: once every save has been answered, the settings file holds each
\* field of each accepted save under its user, with the value of that save
\* or of another accepted save of the same field of the same user, and the
\* settings of users nobody saved for are as they were.
C29_EverySaveStored ==
    AllAnswered =>
        /\ \A r \in Saved : \A k \in DOMAIN saves[r].settings :
            /\ saves[r].username \in DOMAIN settingsFile
            /\ k \in DOMAIN settingsFile[saves[r].username]
            /\ \E q \in Saved :
                /\ saves[q].username = saves[r].username
                /\ k \in DOMAIN saves[q].settings
                /\ settingsFile[saves[r].username][k] = saves[q].settings[k]
        /\ \A u \in DOMAIN StoredSettings :
            (\A r \in Saved : saves[r].username # u)
                => u \in DOMAIN settingsFile /\ settingsFile[u] = StoredSettings[u]

(***************************************************************************)
(* Backend: the session store, /api/auth and authMiddleware                *)
(*                                                                         *)
(* A string is the sequence of its tokens: a cookie name, "=", a value,    *)
(* ";", " ", a quote.  The store starts empty, as without a sessions file. *)
(* generateSessionId joins the clock and a random number; its results are  *)
(* taken as never repeating and numbered in the order of issue.  Handlers  *)
(* touch the Map synchronously, so each request is one step at the store.  *)
(***************************************************************************)

MaxAuthRequests == 4

\* the ids generateSessionId can have returned within MaxAuthRequests logins
SessionIds == 1 .. MaxAuthRequests

\* the X-Session-Id header: <<>> when absent, else <<id>>
SessionHeaders == {<<>>} \cup {<<id>> : id \in 1 .. 2}

\* Set-Cookie headers of the upstream login response
SessionCookie == <<"PLAY_SESSION", "=", "abc", ";", " ", "Path=/">>
ClearedSessionCookie == <<"PLAY_SESSION", "=", ";", " ", "Max-Age=0">>
RememberCookie == <<"remember", "=", "1">>
FlashErrorCookie == <<"PLAY_FLASH", "=", "\"", "error=bad", "\"">>

SetCookieLists ==
    {<<>>, <<SessionCookie>>, <<SessionCookie, RememberCookie>>,
     <<ClearedSessionCookie, RememberCookie>>,
     <<RememberCookie, ClearedSessionCookie>>,
     <<FlashErrorCookie, SessionCookie>>}

\* String.prototype.includes
Includes(str, pattern) ==
    \E i \in 0 .. (Len(str) - Len(pattern)) :
        \A j \in 1 .. Len(pattern) : str[i + j] = pattern[j]

\* cookie.split(';')[0]
RECURSIVE NameValue(_)
NameValue(cookie) ==
    IF cookie = <<>> \/ Head(cookie) = ";"
    THEN <<>>
    ELSE <<Head(cookie)>> \o NameValue(Tail(cookie))

\* Array.prototype.join('; ')
RECURSIVE Join(_)
Join(parts) ==
    IF parts = <<>> THEN <<>>
    ELSE IF Len(parts) = 1 THEN parts[1]
    ELSE parts[1] \o <<";", " ">> \o Join(Tail(parts))

ExtractCookies(setCookieHeaders) ==
    Join([i \in DOMAIN setCookieHeaders |-> NameValue(setCookieHeaders[i])])

\* cookies.includes('PLAY_SESSION=') && !cookies.includes('PLAY_SESSION=;')
HasPlaySession(cookies) ==
    /\ Includes(cookies, <<"PLAY_SESSION", "=">>)
    /\ ~Includes(cookies, <<"PLAY_SESSION", "=", ";">>)

\* cookies.match(/PLAY_FLASH="([^"]*)"/) with 'error=' in the decoded group
FlashHasError(cookies) ==
    \E content \in {"error=bad"} :
        Includes(cookies, <<"PLAY_FLASH", "=", "\"", content, "\"">>)

\* the upstream login: the fetch throws, or answers with a body that names
\* a failure or not and with Set-Cookie headers
LoginReplies ==
    {[threw |-> TRUE, failText |-> FALSE, setCookie |-> <<>>],
     [threw |-> FALSE, failText |-> TRUE, setCookie |-> <<>>]}
    \cup {[threw |-> FALSE, failText |-> FALSE, setCookie |-> h] :
            h \in SetCookieLists}

\* an answered request, as the log keeps it
Answered(op, sessionId, setCookie, direct, cookie, status, authenticated) ==
    [op |-> op, sessionId |-> sessionId, setCookie |-> setCookie,
     direct |-> direct, cookie |-> cookie, status |-> status,
     authenticated |-> authenticated]

\* generateSessionId
GenerateSessionId ==
    Cardinality({i \in DOMAIN authLog :
                    authLog[i].op = "login" /\ authLog[i].status = 200}) + 1

\* sessions.set(sessionId, {cookies, ...})
MapSet(map, key, value) ==
    [k \in DOMAIN map \cup {key} |-> IF k = key THEN value ELSE map[k]]

\* sessions.delete(sessionId)
MapDelete(map, key) == [k \in DOMAIN map \ {key} |-> map[k]]

\* sessions.has(sessionId) for the header's value
Has(map, header) == header # <<>> /\ header[1] \in DOMAIN map

\* getSessionCookies(sessionId): <<>> for null
GetSessionCookies(sessionId) ==
    IF sessionId \in DOMAIN sessions THEN sessions[sessionId] ELSE <<>>

\* the status of the login response and whether a session is created
LoginStatus(hasCredentials, reply) ==
    IF ~hasCredentials THEN 400
    ELSE IF reply.threw THEN 500
    ELSE IF reply.failText THEN 401
    ELSE IF ExtractCookies(reply.setCookie) = <<>> THEN 401
    ELSE IF FlashHasError(ExtractCookies(reply.setCookie)) THEN 401
    ELSE IF ~HasPlaySession(ExtractCookies(reply.setCookie)) THEN 401
    ELSE 200

\* POST /api/auth/login
Login ==
    /\ Len(authLog) < MaxAuthRequests
    /\ \E hasCredentials \in BOOLEAN, reply \in LoginReplies :
        LET status == LoginStatus(hasCredentials, reply)
            cookies == ExtractCookies(reply.setCookie)
            sessionId == GenerateSessionId
        IN  /\ (~hasCredentials) => reply.threw
            /\ IF status = 200
               THEN /\ sessions' = MapSet(sessions, sessionId, cookies)
                    /\ sessionsFile' = sessions'
                    /\ authLog' = Append(authLog,
                            Answered("login", <<sessionId>>, reply.setCookie,
                                     <<>>, <<>>, status, FALSE))
               ELSE /\ UNCHANGED <<sessions, sessionsFile>>
                    /\ authLog' = Append(authLog,
                            Answered("login", <<>>, reply.setCookie, <<>>,
                                     <<>>, status, FALSE))
    /\ UNCHANGED <<frontVars, historyGet, settingsFile, saves>>

\* POST /api/auth/logout
Logout ==
    /\ Len(authLog) < MaxAuthRequests
    /\ \E header \in SessionHeaders :
        /\ IF Has(sessions, header)
           THEN /\ sessions' = MapDelete(sessions, header[1])
                /\ sessionsFile' = sessions'
           ELSE UNCHANGED <<sessions, sessionsFile>>
        /\ authLog' = Append(authLog,
                Answered("logout", header, <<>>, <<>>, <<>>, 200, FALSE))
    /\ UNCHANGED <<frontVars, historyGet, settingsFile, saves>>

\* GET /api/auth/status
Status ==
    /\ Len(authLog) < MaxAuthRequests
    /\ \E header \in SessionHeaders :
        authLog' = Append(authLog,
            Answered("status", header, <<>>, <<>>, <<>>, 200,
                     Has(sessions, header)))
    /\ UNCHANGED <<frontVars, historyGet, settingsFile, saves, sessions,
                   sessionsFile>>

\* the X-Meican-Cookie header of a proxied request: '' or a cookie string
DirectCookies == {<<>>, <<"PLAY_SESSION", "=", "own">>}

\* authMiddleware on a proxied request: the cookie it puts in the context
AuthMiddleware ==
    /\ Len(authLog) < MaxAuthRequests
    /\ \E header \in SessionHeaders, direct \in DirectCookies :
        LET sessionCookies == IF header = <<>> THEN <<>>
                              ELSE GetSessionCookies(header[1])
            cookie == IF sessionCookies # <<>> THEN sessionCookies ELSE direct
        IN  authLog' = Append(authLog,
                Answered("proxy", header, <<>>, direct, cookie, 200, FALSE))
    /\ UNCHANGED <<frontVars, historyGet, settingsFile, saves, sessions,
                   sessionsFile>>

InitAuth ==
    /\ FrontIdle
    /\ BackendIdle

NextAuth == Login \/ Logout \/ Status \/ AuthMiddleware

SpecAuth == InitAuth /\ [][NextAuth]_vars

\* the upstream sent a PLAY_SESSION cookie that has a value
ReceivedPlaySession(setCookieHeaders) ==
    \E i \in DOMAIN setCookieHeaders :
        /\ Len(NameValue(setCookieHeaders[i])) > 2
        /\ setCookieHeaders[i][1] = "PLAY_SESSION"
        /\ setCookieHeaders[i][2] = "="

\* request i of the log is the login that issued id on a PLAY_SESSION
\* cookie, and no request between i and j logged id out
IssuedLive(i, id, j) ==
    /\ authLog[i].op = "login"
    /\ authLog[i].sessionId = <<id>>
    /\ ReceivedPlaySession(authLog[i].setCookie)
    /\ \A k \in (i + 1) .. (j - 1) :
        ~(authLog[k].op = "logout" /\ authLog[k].sessionId = <<id>>)

\* C30: a status request for an id reports authenticated, and a proxied
\* request with that id gets the cookies stored at its login, exactly when
\* the id was issued by an earlier login that received a PLAY_SESSION cookie
\* with a value and no logout for the id was handled since; otherwise the
\* proxied request gets only the cookie the client sent itself.
C30_ValidIffIssuedAndNotLoggedOut ==
    \A j \in DOMAIN authLog : \A id \in SessionIds :
        authLog[j].sessionId = <<id>> =>
            /\ authLog[j].op = "status" =>
                (authLog[j].authenticated
                    <=> \E i \in 1 .. (j - 1) : IssuedLive(i, id, j))
            /\ authLog[j].op = "proxy" =>
                /\ \A i \in 1 .. (j - 1) :
                    IssuedLive(i, id, j) =>
                        authLog[j].cookie = ExtractCookies(authLog[i].setCookie)
                /\ (~\E i \in 1 .. (j - 1) : IssuedLive(i, id, j)) =>
                        authLog[j].cookie = authLog[j].direct

====
